---- MODULE Spec2Model ----
(***************************************************************************)
(* The frame manager of puppeteer-core (cdp/FrameManager.ts): the frame    *)
(* tree, the execution-context registry and the swap protocol, driven by   *)
(* the protocol events of the page session, a replacement page session and *)
(* an out-of-process iframe session.                                       *)
(*                                                                         *)
(* One action is one turn of the event loop: the handler of one protocol   *)
(* event, one timer, one command response or one microtask (the            *)
(* continuation of an await whose promise is already settled).  Microtasks *)
(* run before the next event is delivered, so every event action is        *)
(* guarded by micro = << >>.                                               *)
(***************************************************************************)
EXTENDS Integers, Sequences, FiniteSets, TLC

(* ------------------------------ bounds -------------------------------- *)

\* Frame objects (new CdpFrame) the manager may construct in one run.
MaxObjs == 3
\* Protocol execution contexts the browser may create in one run.
MaxCtx == 2
\* Protocol events, timers and frame-tree responses delivered in one run.
MaxEvents == 3
\* Frame-navigated handlers suspended at once, waiting for their frame.
MaxWaits == 2
\* initialize calls of one session that may be in flight at once
MaxInitCalls == 2
\* Arguments a decorated method may take.
MaxArity == 2

(* --------------------------- input domains ---------------------------- *)

PageSession == "S1"        \* the session the FrameManager is constructed with
SwapSession == "S2"        \* the replacement page session of a swap
OopifSession == "S3"       \* the session of an out-of-process iframe target
Sessions == {PageSession, SwapSession, OopifSession}

NoId == "-"                \* undefined frame id / parent id
MainIds == {"A", "T"}      \* ids a parentless frame may carry
ChildIds == {"B", "C"}     \* ids of subframes
FrameIds == MainIds \cup ChildIds

\* session._target()._targetId
TargetId(s) == CASE s = PageSession -> "A"
                 [] s = SwapSession -> "T"
                 [] OTHER -> "B"

\* The parents the browser may name for a subframe (the hierarchy is acyclic).
ParentChoices(f) == IF f = "B" THEN MainIds ELSE {"A", "B"}

Urls == {"u1", "u2"}
Loaders == {"L1", "L2"}
\* The documents a frame-navigated payload may announce: url and loader id.
Documents == {<<"u1", "L1">>, <<"u2", "L2">>}
LifecycleNames == {"load"}
UTILITY_WORLD_NAME == "__puppeteer_utility_world__"
\* The realms a context-created payload may describe: <<auxData.isDefault, name>>.
Realms == {<<TRUE, "">>, <<FALSE, UTILITY_WORLD_NAME>>, <<FALSE, "other">>}
MAIN_WORLD == "main"
PUPPETEER_WORLD == "util"

\* A frame-navigated payload of a subframe is only tested for having a parent id.
SomeParent == "parent"

NoCtx == [session |-> NoId, id |-> 0]
NoFrame == 0

(* ------------------------------- state -------------------------------- *)

VARIABLES
  objs,        \* every CdpFrame object constructed so far, by object identity
  frames,      \* FrameTree.#frames: frame id -> object (NoFrame when absent)
  mainFrame,   \* FrameTree.#mainFrame
  waitRequests,\* FrameTree.#waitRequests: the suspended #onFrameNavigated calls
  micro,       \* continuations of #onFrameNavigated whose wait is settled
  contexts,    \* FrameManager.#contextIdToContext
  client,      \* FrameManager.#client
  navReceived, \* FrameManager.#frameNavigatedReceived
  listening,   \* sessions setupEventListeners was called on
  session,     \* per session: "new", "ready" or "disconnected"
  initPending, \* sessions whose Page.getFrameTree response is outstanding
  swapWait,    \* per session: the `swapped` deferred of #onClientDisconnect
  swapping,    \* swapFrameTree suspended in initialize: the frame it captured
  nextCtx,     \* the next protocol context id the browser hands out
  emitted,     \* the notifications emitted by the last turn, in order
  last,        \* the event the last turn handled
  budget,      \* events that may still be delivered
  isolatedWorlds, \* FrameManager.#isolatedWorlds: the sessions whose key is in
  scriptsSent, \* per session: Page.addScriptToEvaluateOnNewDocument sent
  createCalls, \* per session: the initialize calls in flight, by their stage
  page,        \* CdpPage: its listeners on the manager and its closed state
  forwarded,   \* what the page's listeners were given by the last turn
  instances,   \* decorators.ts `instances`: the handles marked by move()
  released,    \* per handle: the calls of the class's own dispose methods
  handleCalls, \* per handle: the calls made on it so far, in order
  cache,       \* invokeAtMostOnceForArguments `cache`: the paths it holds
  cacheDepth,  \* invokeAtMostOnceForArguments `cacheDepth`
  invoked,     \* the argument tuples the decorated target was invoked with
  memoCalls    \* the argument tuples the decorated method was called with

vars == <<objs, frames, mainFrame, waitRequests, micro, contexts, client,
          navReceived, listening, session, initPending, swapWait, swapping,
          nextCtx, emitted, last, budget, isolatedWorlds, scriptsSent,
          createCalls, page, forwarded, instances, released, handleCalls,
          cache, cacheDepth, invoked, memoCalls>>

\* the state of the frame manager and of the page
managerVars == <<objs, frames, mainFrame, waitRequests, micro, contexts, client,
                 navReceived, listening, session, initPending, swapWait,
                 swapping, nextCtx, emitted, isolatedWorlds, scriptsSent,
                 createCalls, page, forwarded>>

\* the state of the decorators of util/decorators.ts
decoratorVars == <<instances, released, handleCalls, cache, cacheDepth, invoked,
                   memoCalls>>

(* ----------------------- CdpFrame (cdp/Frame.ts) ----------------------- *)

\* new CdpFrame(frameManager, frameId, parentFrameId, client)
NewFrame(frameId, parentId, s) ==
  [id |-> frameId, parentId |-> parentId, client |-> s, url |-> "",
   loaderId |-> "", lifecycle |-> {}, detached |-> FALSE,
   main |-> NoCtx, util |-> NoCtx, wait |-> "none"]

\* frame.isOOPFrame(): the frame is bound to another session than the page's
isOOPFrame(fr, cl) == fr.client # cl

\* frame.updateClient(client): rebinds the session
updateClient(fr, s) == [fr EXCEPT !.client = s]

\* frame.updateId(id)
updateId(fr, id) == [fr EXCEPT !.id = id]

\* world.clearContext() on both worlds of a frame
clearContexts(fr) == [fr EXCEPT !.main = NoCtx, !.util = NoCtx]

\* frame._navigated(payload): a new loader id starts a new document
navigated(fr, url, loaderId) ==
  IF loaderId = fr.loaderId
  THEN [fr EXCEPT !.url = url]
  ELSE [fr EXCEPT !.url = url, !.loaderId = loaderId, !.lifecycle = {},
                  !.main = NoCtx, !.util = NoCtx]

\* frame._navigatedWithinDocument(url)
navigatedWithinDocument(fr, url) == [fr EXCEPT !.url = url]

\* frame._onLifecycleEvent(loaderId, name): stale loader ids are dropped
onLifecycleEvent(fr, loaderId, name) ==
  IF loaderId # fr.loaderId THEN fr
  ELSE [fr EXCEPT !.lifecycle = @ \cup {name}]

\* frame._onLoadingStarted()
onLoadingStarted(fr) == [fr EXCEPT !.lifecycle = @ \cup {"loading"}]

\* frame._onLoadingStopped(): the document and its resources are loaded
onLoadingStopped(fr) ==
  [fr EXCEPT !.lifecycle = (@ \ {"loading"}) \cup {"DOMContentLoaded", "load"}]

\* frame[Symbol.dispose](): marks the frame detached and fails what waits on it
dispose(fr) ==
  [fr EXCEPT !.detached = TRUE,
             !.wait = IF @ = "pending" THEN "TargetClosed" ELSE @]

(* --------------------- FrameTree (cdp/FrameTree.ts) -------------------- *)
(* A tree value T is a record [objs, frames, main, waits, micro, nav, out, *)
(* ovf]: the part of the state the frame handlers read and write.  ovf is  *)
(* set when a handler would construct more than MaxObjs frame objects.     *)

getById(T, id) == T.frames[id]

getMainFrame(T) == T.main

\* the objects in the tree whose parent id is the id of object o, in the
\* order they were constructed
RECURSIVE SeqOfSet(_)
SeqOfSet(S) ==
  IF S = {} THEN << >>
  ELSE LET m == CHOOSE x \in S : \A y \in S : x <= y
       IN  <<m>> \o SeqOfSet(S \ {m})

childFrames(T, o) ==
  SeqOfSet({c \in 1..Len(T.objs) :
              /\ T.frames[T.objs[c].id] = c
              /\ T.objs[c].parentId = T.objs[o].id})

\* tree.addFrame(frame): inserts, sets the main frame when there is none, and
\* resolves the waits on the frame's id (their continuations become microtasks)
addFrame(T, o) ==
  LET fr == T.objs[o]
      hit == SelectSeq(T.waits, LAMBDA w : w.frameId = fr.id)
      rest == SelectSeq(T.waits, LAMBDA w : w.frameId # fr.id)
      conts == [i \in 1..Len(hit) |->
                  [obj |-> o, url |-> hit[i].url, loaderId |-> hit[i].loaderId]]
  IN  [T EXCEPT !.frames[fr.id] = o,
                !.main = IF fr.parentId = NoId /\ T.main = NoFrame THEN o ELSE @,
                !.waits = rest,
                !.micro = @ \o conts]

\* tree.removeFrame(frame): removes the entry of the frame's id
removeFrame(T, o) ==
  LET fr == T.objs[o]
  IN  [T EXCEPT !.frames[fr.id] = NoFrame,
                !.main = IF fr.parentId = NoId THEN NoFrame ELSE @]

\* tree.waitForFrame(frameId) as awaited by #onFrameNavigated with `payload`:
\* settled at once when the frame is present, registered otherwise
waitForFrame(T, frameId, url, loaderId) ==
  IF getById(T, frameId) # NoFrame
  THEN [T EXCEPT !.micro = Append(@, [obj |-> getById(T, frameId), url |-> url,
                                      loaderId |-> loaderId])]
  ELSE [T EXCEPT !.waits = Append(@, [frameId |-> frameId, url |-> url,
                                      loaderId |-> loaderId])]

emit(T, kind, o) == [T EXCEPT !.out = Append(@, <<kind, o>>)]

(* ------------------ FrameManager (cdp/FrameManager.ts) ----------------- *)

FrameAttached == "FrameAttached"
FrameNavigated == "FrameNavigated"
FrameDetached == "FrameDetached"
FrameSwapped == "FrameSwapped"
LifecycleEvent == "LifecycleEvent"
FrameNavigatedWithinDocument == "FrameNavigatedWithinDocument"

\* new CdpFrame(...) appended to the objects; its identity is its index
construct(T, frameId, parentId, s) ==
  IF Len(T.objs) >= MaxObjs THEN [T EXCEPT !.ovf = TRUE]
  ELSE [T EXCEPT !.objs = Append(@, NewFrame(frameId, parentId, s))]

RECURSIVE removeFramesRecursively(_, _)
RECURSIVE removeAll(_, _)

\* for (const child of kids) this.#removeFramesRecursively(child)
removeAll(T, kids) ==
  IF kids = << >> THEN T
  ELSE removeAll(removeFramesRecursively(T, Head(kids)), Tail(kids))

\* A removal that notifies for the frame before it removes the frame's children.
removeFramesRecursively_preorder(T, o) ==
  LET kids == childFrames(T, o)
      T1 == emit(removeFrame([T EXCEPT !.objs[o] = dispose(@)], o),
                 FrameDetached, o)
  IN  removeAll(T1, kids)

\* A removal that disposes the frame and notifies but leaves it in the tree.
removeFramesRecursively_keepEntry(T, o) ==
  LET T1 == removeAll(T, childFrames(T, o))
      T2 == [T1 EXCEPT !.objs[o] = dispose(@)]
  IN  emit(T2, FrameDetached, o)

\* #removeFramesRecursively(frame)
removeFramesRecursively(T, o) ==
  LET T1 == removeAll(T, childFrames(T, o))
      T2 == [T1 EXCEPT !.objs[o] = dispose(@)]
      T3 == removeFrame(T2, o)
  IN  emit(T3, FrameDetached, o)

\* An attach handler that does not look the frame id up first.
onFrameAttached_recreate(T, cl, s, frameId, parentId) ==
  LET T1 == construct(T, frameId, parentId, s)
      o == Len(T1.objs)
  IN  IF T1.ovf THEN T1
      ELSE emit(addFrame(T1, o), FrameAttached, o)

\* An attach handler that forgets to insert the new frame into the tree.
onFrameAttached_noAdd(T, cl, s, frameId, parentId) ==
  LET frame == getById(T, frameId)
  IN  IF frame # NoFrame
      THEN IF isOOPFrame(T.objs[frame], cl)
           THEN [T EXCEPT !.objs[frame] = updateClient(@, s)]
           ELSE T
      ELSE LET T1 == construct(T, frameId, parentId, s)
           IN  IF T1.ovf THEN T1
               ELSE emit(T1, FrameAttached, Len(T1.objs))

\* An attach handler that puts a detached Frame object of the same id back into
\* the tree instead of constructing a new one.
onFrameAttached_revive(T, cl, s, frameId, parentId) ==
  LET frame == getById(T, frameId)
      old == {o \in 1..Len(T.objs) :
                T.objs[o].id = frameId /\ T.objs[o].detached}
  IN  IF frame # NoFrame
      THEN IF isOOPFrame(T.objs[frame], cl)
           THEN [T EXCEPT !.objs[frame] = updateClient(@, s)]
           ELSE T
      ELSE IF old # {}
      THEN LET o == CHOOSE x \in old : TRUE
           IN  emit(addFrame(T, o), FrameAttached, o)
      ELSE LET T1 == construct(T, frameId, parentId, s)
               o == Len(T1.objs)
           IN  IF T1.ovf THEN T1
               ELSE emit(addFrame(T1, o), FrameAttached, o)

\* #onFrameAttached(session, frameId, parentFrameId)
onFrameAttached(T, cl, s, frameId, parentId) ==
  LET frame == getById(T, frameId)
  IN  IF frame # NoFrame
      THEN IF isOOPFrame(T.objs[frame], cl)
           THEN [T EXCEPT !.objs[frame] = updateClient(@, s)]
           ELSE T
      ELSE LET T1 == construct(T, frameId, parentId, s)
               o == Len(T1.objs)
           IN  IF T1.ovf THEN T1
               ELSE emit(addFrame(T1, o), FrameAttached, o)

\* A navigation handler that keeps the children of the navigated frame.
onFrameNavigated_keepChildren(T, cl, frameId, parentId, url, loaderId) ==
  LET frame == getById(T, frameId)
      isMainFrame == parentId = NoId
      T2 == IF ~isMainFrame THEN T
            ELSE IF frame # NoFrame
            THEN LET R == removeFrame(T, frame)
                 IN  addFrame([R EXCEPT !.objs[frame].id = frameId], frame)
            ELSE LET C == construct(T, frameId, NoId, cl)
                 IN  IF C.ovf THEN C ELSE addFrame(C, Len(C.objs))
  IN  waitForFrame(T2, frameId, url, loaderId)

\* A navigation handler that, when the frame id is not in the tree, goes on
\* with the last Frame object that carried the id instead of waiting.
onFrameNavigated_lastKnown(T, cl, frameId, parentId, url, loaderId) ==
  LET frame == getById(T, frameId)
      isMainFrame == parentId = NoId
      T1 == IF frame # NoFrame THEN removeAll(T, childFrames(T, frame)) ELSE T
      T2 == IF ~isMainFrame THEN T1
            ELSE IF frame # NoFrame
            THEN LET R == removeFrame(T1, frame)
                 IN  addFrame([R EXCEPT !.objs[frame].id = frameId], frame)
            ELSE LET C == construct(T1, frameId, NoId, cl)
                 IN  IF C.ovf THEN C ELSE addFrame(C, Len(C.objs))
      known == {o \in 1..Len(T2.objs) : T2.objs[o].id = frameId}
  IN  IF getById(T2, frameId) = NoFrame /\ known # {}
      THEN [T2 EXCEPT !.micro =
              Append(@, [obj |-> CHOOSE o \in known : \A x \in known : x <= o,
                         url |-> url, loaderId |-> loaderId])]
      ELSE waitForFrame(T2, frameId, url, loaderId)

\* #onFrameNavigated(framePayload, navigationType) up to its await
onFrameNavigated(T, cl, frameId, parentId, url, loaderId) ==
  LET frame == getById(T, frameId)
      isMainFrame == parentId = NoId
      T1 == IF frame # NoFrame THEN removeAll(T, childFrames(T, frame)) ELSE T
      T2 == IF ~isMainFrame THEN T1
            ELSE IF frame # NoFrame
            THEN LET R == removeFrame(T1, frame)
                 IN  addFrame([R EXCEPT !.objs[frame].id = frameId], frame)
            ELSE LET C == construct(T1, frameId, NoId, cl)
                 IN  IF C.ovf THEN C ELSE addFrame(C, Len(C.objs))
  IN  waitForFrame(T2, frameId, url, loaderId)

\* #onFrameNavigated after its await: frame._navigated(payload) and the
\* notification
onFrameNavigatedResume(T, c) ==
  emit([T EXCEPT !.objs[c.obj] = navigated(@, c.url, c.loaderId)],
       FrameNavigated, c.obj)

\* A snapshot replay that navigates every frame of the snapshot, marked or not.
RECURSIVE handleFrameTree_noSkip(_, _, _, _)
handleFrameTree_noSkip(T, cl, s, tree) ==
  IF tree = << >> THEN T
  ELSE LET p == Head(tree)
           T1 == IF p.parentId # NoId
                 THEN onFrameAttached(T, cl, s, p.id, p.parentId) ELSE T
           T2 == onFrameNavigated([T1 EXCEPT !.nav = @ \ {p.id}], cl, p.id,
                                  p.parentId, p.url, p.loaderId)
       IN  handleFrameTree_noSkip(T2, cl, s, Tail(tree))

\* A snapshot replay that handles the children of a frame before the frame.
RECURSIVE handleFrameTree_childrenFirst(_, _, _, _)
handleFrameTree_childrenFirst(T, cl, s, tree) ==
  IF tree = << >> THEN T
  ELSE LET p == Head(tree)
           T0 == handleFrameTree_childrenFirst(T, cl, s, Tail(tree))
           T1 == IF p.parentId # NoId
                 THEN onFrameAttached(T0, cl, s, p.id, p.parentId) ELSE T0
       IN  IF p.id \notin T1.nav
           THEN onFrameNavigated(T1, cl, p.id, p.parentId, p.url, p.loaderId)
           ELSE [T1 EXCEPT !.nav = @ \ {p.id}]

\* #handleFrameTree(session, frameTree), the tree given in the order the
\* recursion visits it (a frame before its children)
RECURSIVE handleFrameTree(_, _, _, _)
handleFrameTree(T, cl, s, tree) ==
  IF tree = << >> THEN T
  ELSE LET p == Head(tree)
           T1 == IF p.parentId # NoId
                 THEN onFrameAttached(T, cl, s, p.id, p.parentId) ELSE T
           T2 == IF p.id \notin T1.nav
                 THEN onFrameNavigated(T1, cl, p.id, p.parentId, p.url, p.loaderId)
                 ELSE [T1 EXCEPT !.nav = @ \ {p.id}]
       IN  handleFrameTree(T2, cl, s, Tail(tree))

\* A detach handler that removes the frame whatever the reason.
onFrameDetached_anyReason(T, frameId, reason) ==
  LET frame == getById(T, frameId)
  IN  IF frame = NoFrame THEN T
      ELSE removeFramesRecursively(T, frame)

\* #onFrameDetached(frameId, reason)
onFrameDetached(T, frameId, reason) ==
  LET frame == getById(T, frameId)
  IN  IF frame = NoFrame THEN T
      ELSE IF reason = "remove" THEN removeFramesRecursively(T, frame)
      ELSE emit(T, FrameSwapped, frame)

\* #onLifecycleEvent(event)
onLifecycleEventHandler(T, frameId, loaderId, name) ==
  LET frame == getById(T, frameId)
  IN  IF frame = NoFrame THEN T
      ELSE emit([T EXCEPT !.objs[frame] = onLifecycleEvent(@, loaderId, name)],
                LifecycleEvent, frame)

\* #onFrameStartedLoading(frameId)
onFrameStartedLoading(T, frameId) ==
  LET frame == getById(T, frameId)
  IN  IF frame = NoFrame THEN T
      ELSE [T EXCEPT !.objs[frame] = onLoadingStarted(@)]

\* A stopped-loading handler that notifies without looking at what the lookup
\* of the frame id returned.
onFrameStoppedLoading_noCheck(T, frameId) ==
  LET frame == getById(T, frameId)
  IN  IF frame = NoFrame THEN emit(T, LifecycleEvent, frame)
      ELSE emit([T EXCEPT !.objs[frame] = onLoadingStopped(@)],
                LifecycleEvent, frame)

\* #onFrameStoppedLoading(frameId)
onFrameStoppedLoading(T, frameId) ==
  LET frame == getById(T, frameId)
  IN  IF frame = NoFrame THEN T
      ELSE emit([T EXCEPT !.objs[frame] = onLoadingStopped(@)],
                LifecycleEvent, frame)

\* A same-document handler that detaches the children as a navigation does.
onFrameNavigatedWithinDocument_dropChildren(T, frameId, url) ==
  LET frame == getById(T, frameId)
  IN  IF frame = NoFrame THEN T
      ELSE LET T1 == removeAll(T, childFrames(T, frame))
           IN  emit(emit([T1 EXCEPT !.objs[frame] =
                                      navigatedWithinDocument(@, url)],
                         FrameNavigatedWithinDocument, frame),
                    FrameNavigated, frame)

\* #onFrameNavigatedWithinDocument(frameId, url)
onFrameNavigatedWithinDocument(T, frameId, url) ==
  LET frame == getById(T, frameId)
  IN  IF frame = NoFrame THEN T
      ELSE emit(emit([T EXCEPT !.objs[frame] = navigatedWithinDocument(@, url)],
                     FrameNavigatedWithinDocument, frame),
                FrameNavigated, frame)

(* The registry value R is a record [objs, ctxs]: the frame objects (for   *)
(* their worlds) and #contextIdToContext, a set of ExecutionContext        *)
(* records [session, id, client, obj, world] keyed by (session, id).       *)

Key(c) == [session |-> c.session, id |-> c.id]

\* world.hasContext()
hasContext(fr, w) == IF w = MAIN_WORLD THEN fr.main # NoCtx ELSE fr.util # NoCtx

\* world.setContext(context)
setContext(fr, w, k) ==
  IF w = MAIN_WORLD THEN [fr EXCEPT !.main = k] ELSE [fr EXCEPT !.util = k]

\* world.clearContext()
clearContext(fr, w) == setContext(fr, w, NoCtx)

\* getExecutionContextById(contextId, session)
getExecutionContextById(ctxs, id, s) ==
  {c \in ctxs : c.session = s /\ c.id = id}

\* A lookup that reports a missing context the way the tolerant lookup does.
executionContextById_tolerant(ctxs, id, s) ==
  IF getExecutionContextById(ctxs, id, s) = {} THEN "none" ELSE "found"

\* executionContextById(contextId, session): asserts that the context is there
executionContextById(ctxs, id, s) ==
  IF getExecutionContextById(ctxs, id, s) = {} THEN "INTERNAL ERROR" ELSE "found"

\* A context-created handler that binds a utility realm without asking whether
\* the utility world already holds a context.
onExecutionContextCreated_rebind(R, frames_, s, frameId, isDefault, name, id) ==
  LET frame == IF frameId # NoId THEN frames_[frameId] ELSE NoFrame
      world == IF frame = NoFrame THEN NoId
               ELSE IF R.objs[frame].client # s THEN NoId
               ELSE IF isDefault THEN MAIN_WORLD
               ELSE IF name = UTILITY_WORLD_NAME THEN PUPPETEER_WORLD
               ELSE NoId
      context == [session |-> s, id |-> id, client |-> R.objs[frame].client,
                  obj |-> frame, world |-> world]
  IN  IF world = NoId THEN R
      ELSE [objs |-> [R.objs EXCEPT ![frame] = setContext(@, world, Key(context))],
            ctxs |-> {c \in R.ctxs : Key(c) # Key(context)} \cup {context}]

\* A context-created handler that registers a realm of a known frame under its
\* id even when it binds the realm to no world.
onExecutionContextCreated_track(R, frames_, s, frameId, isDefault, name, id) ==
  LET frame == IF frameId # NoId THEN frames_[frameId] ELSE NoFrame
      world == IF frame = NoFrame THEN NoId
               ELSE IF R.objs[frame].client # s THEN NoId
               ELSE IF isDefault THEN MAIN_WORLD
               ELSE IF name = UTILITY_WORLD_NAME
                       /\ ~hasContext(R.objs[frame], PUPPETEER_WORLD)
               THEN PUPPETEER_WORLD
               ELSE NoId
      context == [session |-> s, id |-> id,
                  client |-> IF frame = NoFrame THEN s ELSE R.objs[frame].client,
                  obj |-> frame, world |-> world]
  IN  IF frame = NoFrame THEN R
      ELSE [objs |-> IF world = NoId THEN R.objs
                     ELSE [R.objs EXCEPT ![frame] =
                             setContext(@, world, Key(context))],
            ctxs |-> {c \in R.ctxs : Key(c) # Key(context)} \cup {context}]

\* A context-created handler that takes every realm that is not the default
\* realm for a utility realm.
onExecutionContextCreated_anyName(R, frames_, s, frameId, isDefault, name, id) ==
  LET frame == IF frameId # NoId THEN frames_[frameId] ELSE NoFrame
      world == IF frame = NoFrame THEN NoId
               ELSE IF R.objs[frame].client # s THEN NoId
               ELSE IF isDefault THEN MAIN_WORLD
               ELSE IF ~hasContext(R.objs[frame], PUPPETEER_WORLD)
               THEN PUPPETEER_WORLD
               ELSE NoId
      context == [session |-> s, id |-> id, client |-> R.objs[frame].client,
                  obj |-> frame, world |-> world]
  IN  IF world = NoId THEN R
      ELSE [objs |-> [R.objs EXCEPT ![frame] = setContext(@, world, Key(context))],
            ctxs |-> {c \in R.ctxs : Key(c) # Key(context)} \cup {context}]

\* A context-created handler that does not ask which session announced the
\* realm.
onExecutionContextCreated_anySession(R, frames_, s, frameId, isDefault, name, id) ==
  LET frame == IF frameId # NoId THEN frames_[frameId] ELSE NoFrame
      world == IF frame = NoFrame THEN NoId
               ELSE IF isDefault THEN MAIN_WORLD
               ELSE IF name = UTILITY_WORLD_NAME
                       /\ ~hasContext(R.objs[frame], PUPPETEER_WORLD)
               THEN PUPPETEER_WORLD
               ELSE NoId
      context == [session |-> s, id |-> id, client |-> R.objs[frame].client,
                  obj |-> frame, world |-> world]
  IN  IF world = NoId THEN R
      ELSE [objs |-> [R.objs EXCEPT ![frame] = setContext(@, world, Key(context))],
            ctxs |-> {c \in R.ctxs : Key(c) # Key(context)} \cup {context}]

\* #onExecutionContextCreated(contextPayload, session); frameId is NoId when
\* the payload's auxData names no frame
onExecutionContextCreated(R, frames_, s, frameId, isDefault, name, id) ==
  LET frame == IF frameId # NoId THEN frames_[frameId] ELSE NoFrame
      world == IF frame = NoFrame THEN NoId
               ELSE IF R.objs[frame].client # s THEN NoId
               ELSE IF isDefault THEN MAIN_WORLD
               ELSE IF name = UTILITY_WORLD_NAME
                       /\ ~hasContext(R.objs[frame], PUPPETEER_WORLD)
               THEN PUPPETEER_WORLD
               ELSE NoId
      context == [session |-> s, id |-> id, client |-> R.objs[frame].client,
                  obj |-> frame, world |-> world]
  IN  IF world = NoId THEN R
      ELSE [objs |-> [R.objs EXCEPT ![frame] = setContext(@, world, Key(context))],
            ctxs |-> {c \in R.ctxs : Key(c) # Key(context)} \cup {context}]

\* #onExecutionContextDestroyed(executionContextId, session)
onExecutionContextDestroyed(R, id, s) ==
  LET found == getExecutionContextById(R.ctxs, id, s)
  IN  IF found = {} THEN R
      ELSE LET context == CHOOSE c \in found : TRUE
           IN  [objs |-> [R.objs EXCEPT ![context.obj] =
                            clearContext(@, context.world)],
                ctxs |-> R.ctxs \ {context}]

\* A context-cleared handler that clears the Worlds but keeps the entries.
onExecutionContextsCleared_keepEntries(R, s) ==
  LET gone == {c \in R.ctxs : c.client = s}
  IN  [objs |-> [o \in 1..Len(R.objs) |->
                   LET fr == R.objs[o]
                       m == \E c \in gone : c.obj = o /\ c.world = MAIN_WORLD
                       u == \E c \in gone : c.obj = o /\ c.world = PUPPETEER_WORLD
                   IN  [fr EXCEPT !.main = IF m THEN NoCtx ELSE @,
                                  !.util = IF u THEN NoCtx ELSE @]],
       ctxs |-> R.ctxs]

\* #onExecutionContextsCleared(session)
onExecutionContextsCleared(R, s) ==
  LET gone == {c \in R.ctxs : c.client = s}
  IN  [objs |-> [o \in 1..Len(R.objs) |->
                   LET fr == R.objs[o]
                       m == \E c \in gone : c.obj = o /\ c.world = MAIN_WORLD
                       u == \E c \in gone : c.obj = o /\ c.world = PUPPETEER_WORLD
                   IN  [fr EXCEPT !.main = IF m THEN NoCtx ELSE @,
                                  !.util = IF u THEN NoCtx ELSE @]],
       ctxs |-> R.ctxs \ gone]

(* ------------- initialize and the utility world of a session ----------- *)
(* An isolated-world value I is a record [worlds, sent, calls]: the keys    *)
(* of #isolatedWorlds (one world name, so a key is a session), the scripts  *)
(* registered per session, and per session the initialize calls in flight: *)
(* waiting for Runtime.enable, for the registration of the script, or for  *)
(* the worlds created in the frames.                                       *)

NoCalls == [enable |-> 0, script |-> 0, worlds |-> 0]

\* initialize(client), the branch client.send('Runtime.enable')
initializeRuntime(I, s) == [I EXCEPT !.calls[s].enable = @ + 1]

\* #createIsolatedWorld(session, UTILITY_WORLD_NAME) up to its first await:
\* returns when the key is known, sends Page.addScriptToEvaluateOnNewDocument
\* otherwise
createIsolatedWorld(I, s) ==
  IF s \in I.worlds
  THEN [I EXCEPT !.calls[s].enable = @ - 1]
  ELSE [I EXCEPT !.calls[s].enable = @ - 1, !.calls[s].script = @ + 1,
                 !.sent[s] = @ + 1]

\* #createIsolatedWorld resumed after the script was registered: sends
\* Page.createIsolatedWorld for the frames of the session
createIsolatedWorldFrames(I, s) ==
  [I EXCEPT !.calls[s].script = @ - 1, !.calls[s].worlds = @ + 1]

\* #createIsolatedWorld resumed after the worlds were created: records the key
createIsolatedWorldAdd(I, s) ==
  [I EXCEPT !.calls[s].worlds = @ - 1, !.worlds = @ \cup {s}]

(* ------------------------- CdpPage (cdp/Page.ts) ----------------------- *)
(* A page value P is a record: handlers counts the registrations of each   *)
(* of #frameManagerHandlers on the frame manager, closeListeners counts    *)
(* per target (named by its session) the callbacks waiting for it to       *)
(* close, closed is #closed, closeEmitted counts the Close notifications.  *)

NoPage == [handlers |-> 0, closeListeners |-> [s \in Sessions |-> 0],
           closed |-> FALSE, closeEmitted |-> 0, targetsClosed |-> {}]

\* CdpPage.#setupEventListeners() while the target of session s is #target
pageSetupEventListeners(P, s) ==
  [P EXCEPT !.handlers = @ + 1, !.closeListeners[s] = @ + 1]

\* the callbacks on target._isClosedDeferred of the target of session s
onTargetClosed(P, s) ==
  [P EXCEPT !.targetsClosed = @ \cup {s},
            !.closeEmitted = @ + P.closeListeners[s],
            !.closed = @ \/ P.closeListeners[s] > 0,
            !.closeListeners[s] = 0]

\* The notifications of the frame manager the page registers handlers for.
ForwardedKinds == {FrameAttached, FrameDetached, FrameNavigated}

\* notification x given to n registered handlers
Repeat(x, n) == [i \in 1..n |-> x]

\* frameManager.emit for each notification of out: every registered handler of
\* the page emits it on the page
RECURSIVE Forward(_, _)
Forward(out, n) ==
  IF out = << >> THEN << >>
  ELSE (IF Head(out)[1] \in ForwardedKinds THEN Repeat(Head(out), n) ELSE << >>)
         \o Forward(Tail(out), n)

(* --------------------- decorators (util/decorators.ts) ----------------- *)

\* Handles of moveable classes: the class of h1 defines Symbol.dispose and
\* Symbol.asyncDispose, the class of h2 only Symbol.dispose.
Handles == {"h1", "h2"}

Disposers(h) == IF h = "h1" THEN {"dispose", "asyncDispose"} ELSE {"dispose"}

\* A moveable value M is a record [instances, released].

\* Class.prototype.move as installed by moveable
move(M, h) == [M EXCEPT !.instances = @ \cup {h}]

\* A dispose wrapper that returns for a marked handle and leaves the mark.
moveableDispose_keepMark(M, h) ==
  IF h \in M.instances THEN M
  ELSE [M EXCEPT !.released[h] = @ + 1]

\* Class.prototype[Symbol.dispose] as replaced by moveable
moveableDispose(M, h) ==
  IF h \in M.instances
  THEN [M EXCEPT !.instances = @ \ {h}]
  ELSE [M EXCEPT !.released[h] = @ + 1]

\* Class.prototype[Symbol.asyncDispose] as replaced by moveable
moveableAsyncDispose(M, h) ==
  IF h \in M.instances
  THEN [M EXCEPT !.instances = @ \ {h}]
  ELSE [M EXCEPT !.released[h] = @ + 1]

\* The objects a decorated method is called with.
Args == {"x", "y"}

\* The argument tuples of at most MaxArity objects.
Tuples == UNION {[1..n -> Args] : n \in 0..MaxArity}

\* the prefixes of args the loop over args walks through
Prefixes(args) == {SubSeq(args, 1, i) : i \in 1..Len(args)}

\* A memo value C is a record [cache, cacheDepth, invoked, outcome]: cache is
\* the set of paths held by the nested WeakMaps.

\* the function invokeAtMostOnceForArguments(target) returns, called with args
invokeAtMostOnceForArguments(C, args) ==
  LET depth == IF C.cacheDepth = -1 THEN Len(args) ELSE C.cacheDepth
      freshArguments == \E q \in Prefixes(args) : q \notin C.cache
  IN  IF depth # Len(args)
      THEN [C EXCEPT !.cacheDepth = depth, !.outcome = "threw"]
      ELSE IF ~freshArguments
      THEN [C EXCEPT !.cacheDepth = depth, !.outcome = "skipped"]
      ELSE [C EXCEPT !.cacheDepth = depth,
                     !.cache = @ \cup Prefixes(args),
                     !.invoked = Append(@, args),
                     !.outcome = "invoked"]

(* ------------------------------ actions ------------------------------- *)

Tree == [objs |-> objs, frames |-> frames, main |-> mainFrame,
         waits |-> waitRequests, micro |-> micro, nav |-> navReceived,
         out |-> << >>, ovf |-> FALSE]

Registry == [objs |-> objs, ctxs |-> contexts]

Isolated == [worlds |-> isolatedWorlds, sent |-> scriptsSent,
             calls |-> createCalls]

SetIsolated(I) ==
  /\ isolatedWorlds' = I.worlds
  /\ scriptsSent' = I.sent
  /\ createCalls' = I.calls

SetTree(T) ==
  /\ ~T.ovf
  /\ objs' = T.objs
  /\ frames' = T.frames
  /\ mainFrame' = T.main
  /\ waitRequests' = T.waits
  /\ micro' = T.micro
  /\ navReceived' = T.nav
  /\ emitted' = T.out
  /\ forwarded' = Forward(T.out, page.handlers)

Event(kind, s, f, a, b) == [kind |-> kind, s |-> s, f |-> f, a |-> a, b |-> b]

\* One more event or timer may be delivered, and no microtask is waiting to
\* run: no continuation of #onFrameNavigated and no rejection of a command of
\* a session that has closed.
Turn ==
  /\ budget > 0
  /\ micro = << >>
  /\ \A s \in initPending : session[s] # "disconnected"
  /\ budget' = budget - 1

\* The frame ids an event may name: every id in the tree and one id that is not
\* (the handlers look the id up and treat all absent ids alike).
EventFrames ==
  LET present == {f \in FrameIds : frames[f] # NoFrame}
      absent == FrameIds \ present
  IN  present \cup (IF absent = {} THEN {}
                    ELSE {CHOOSE f \in absent : TRUE})

\* Session s delivers protocol events to the manager's handlers.
Delivers(s) == s \in listening /\ session[s] = "ready"

NoSwapWait == [obj |-> NoFrame, state |-> "none"]

Init ==
  /\ objs = << >>
  /\ frames = [id \in FrameIds |-> NoFrame]
  /\ mainFrame = NoFrame
  /\ waitRequests = << >>
  /\ micro = << >>
  /\ contexts = {}
  /\ client = PageSession
  /\ navReceived = {}
  /\ listening = {PageSession}
  /\ session = [s \in Sessions |-> IF s = PageSession THEN "ready" ELSE "new"]
  /\ initPending = {PageSession}
  /\ swapWait = [s \in Sessions |-> NoSwapWait]
  /\ swapping = [obj |-> NoFrame, state |-> "none"]
  /\ nextCtx = 1
  /\ emitted = << >>
  /\ last = Event("init", NoId, NoId, NoId, NoId)
  /\ isolatedWorlds = {}
  /\ scriptsSent = [s \in Sessions |-> 0]
  /\ createCalls = [s \in Sessions |->
                      IF s = PageSession THEN [NoCalls EXCEPT !.enable = 1]
                      ELSE NoCalls]
  /\ page = pageSetupEventListeners(NoPage, PageSession)
  /\ forwarded = << >>
  /\ instances = {}
  /\ released = [h \in Handles |-> 0]
  /\ handleCalls = [h \in Handles |-> << >>]
  /\ cache = {}
  /\ cacheDepth = -1
  /\ invoked = << >>
  /\ memoCalls = << >>
  /\ budget = MaxEvents

\* session.on('Page.frameAttached')
PageFrameAttached(s, f, p) ==
  /\ Turn /\ Delivers(s)
  /\ SetTree(onFrameAttached(Tree, client, s, f, p))
  /\ UNCHANGED decoratorVars
  /\ last' = Event("attach", s, f, p, NoId)
  /\ UNCHANGED <<isolatedWorlds, scriptsSent, createCalls, page>>
  /\ UNCHANGED <<contexts, client, listening, session, initPending, swapWait,
                 swapping, nextCtx>>

\* session.on('Page.frameNavigated'), up to the await of #onFrameNavigated
PageFrameNavigated(f, p, url, loaderId) ==
  /\ Turn /\ \E s \in Sessions : Delivers(s)
  /\ SetTree(onFrameNavigated([Tree EXCEPT !.nav = @ \cup {f}], client, f, p,
                              url, loaderId))
  /\ Len(waitRequests') <= MaxWaits
  /\ UNCHANGED decoratorVars
  /\ last' = Event("navigate", NoId, f, url, loaderId)
  /\ UNCHANGED <<isolatedWorlds, scriptsSent, createCalls, page>>
  /\ UNCHANGED <<contexts, client, listening, session, initPending, swapWait,
                 swapping, nextCtx>>

\* the continuation of a settled #onFrameNavigated
Microtask ==
  /\ micro # << >>
  /\ SetTree(onFrameNavigatedResume([Tree EXCEPT !.micro = Tail(@)], Head(micro)))
  /\ UNCHANGED decoratorVars
  /\ last' = Event("resume", NoId, objs[Head(micro).obj].id, Head(micro).url,
                   Head(micro).loaderId)
  /\ UNCHANGED <<isolatedWorlds, scriptsSent, createCalls, page>>
  /\ UNCHANGED <<contexts, client, listening, session, initPending, swapWait,
                 swapping, nextCtx, budget>>

\* session.on('Page.frameDetached')
PageFrameDetached(f, reason) ==
  /\ Turn /\ \E s \in Sessions : Delivers(s)
  /\ SetTree(onFrameDetached(Tree, f, reason))
  /\ UNCHANGED decoratorVars
  /\ last' = Event("detach", NoId, f, reason, NoId)
  /\ UNCHANGED <<isolatedWorlds, scriptsSent, createCalls, page>>
  /\ UNCHANGED <<contexts, client, listening, session, initPending, swapWait,
                 swapping, nextCtx>>

\* session.on('Page.lifecycleEvent')
PageLifecycleEvent(f, loaderId, name) ==
  /\ Turn /\ \E s \in Sessions : Delivers(s)
  /\ SetTree(onLifecycleEventHandler(Tree, f, loaderId, name))
  /\ UNCHANGED decoratorVars
  /\ last' = Event("lifecycle", NoId, f, loaderId, name)
  /\ UNCHANGED <<isolatedWorlds, scriptsSent, createCalls, page>>
  /\ UNCHANGED <<contexts, client, listening, session, initPending, swapWait,
                 swapping, nextCtx>>

\* session.on('Page.frameStartedLoading')
PageFrameStartedLoading(f) ==
  /\ Turn /\ \E s \in Sessions : Delivers(s)
  /\ SetTree(onFrameStartedLoading(Tree, f))
  /\ UNCHANGED decoratorVars
  /\ last' = Event("startedLoading", NoId, f, NoId, NoId)
  /\ UNCHANGED <<isolatedWorlds, scriptsSent, createCalls, page>>
  /\ UNCHANGED <<contexts, client, listening, session, initPending, swapWait,
                 swapping, nextCtx>>

\* session.on('Page.frameStoppedLoading')
PageFrameStoppedLoading(f) ==
  /\ Turn /\ \E s \in Sessions : Delivers(s)
  /\ SetTree(onFrameStoppedLoading(Tree, f))
  /\ UNCHANGED decoratorVars
  /\ last' = Event("stoppedLoading", NoId, f, NoId, NoId)
  /\ UNCHANGED <<isolatedWorlds, scriptsSent, createCalls, page>>
  /\ UNCHANGED <<contexts, client, listening, session, initPending, swapWait,
                 swapping, nextCtx>>

\* session.on('Page.navigatedWithinDocument')
PageNavigatedWithinDocument(f, url) ==
  /\ Turn /\ \E s \in Sessions : Delivers(s)
  /\ SetTree(onFrameNavigatedWithinDocument(Tree, f, url))
  /\ UNCHANGED decoratorVars
  /\ last' = Event("withinDocument", NoId, f, url, NoId)
  /\ UNCHANGED <<isolatedWorlds, scriptsSent, createCalls, page>>
  /\ UNCHANGED <<contexts, client, listening, session, initPending, swapWait,
                 swapping, nextCtx>>

SetRegistry(R) ==
  /\ objs' = R.objs
  /\ contexts' = R.ctxs
  /\ emitted' = << >>
  /\ forwarded' = << >>

\* session.on('Runtime.executionContextCreated'); the browser numbers the
\* contexts it creates
RuntimeExecutionContextCreated(s, f, isDefault, name) ==
  /\ Turn /\ Delivers(s)
  /\ nextCtx <= MaxCtx
  /\ SetRegistry(onExecutionContextCreated(Registry, frames, s, f, isDefault,
                                           name, nextCtx))
  /\ nextCtx' = nextCtx + 1
  /\ UNCHANGED decoratorVars
  /\ last' = Event("contextCreated", s, f, isDefault, name)
  /\ UNCHANGED <<isolatedWorlds, scriptsSent, createCalls, page>>
  /\ UNCHANGED <<frames, mainFrame, waitRequests, micro, client, navReceived,
                 listening, session, initPending, swapWait, swapping>>

\* session.on('Runtime.executionContextDestroyed')
RuntimeExecutionContextDestroyed(s, id) ==
  /\ Turn /\ Delivers(s)
  /\ SetRegistry(onExecutionContextDestroyed(Registry, id, s))
  /\ UNCHANGED decoratorVars
  /\ last' = Event("contextDestroyed", s, NoId, id, NoId)
  /\ UNCHANGED <<isolatedWorlds, scriptsSent, createCalls, page>>
  /\ UNCHANGED <<frames, mainFrame, waitRequests, micro, client, navReceived,
                 listening, session, initPending, swapWait, swapping, nextCtx>>

\* session.on('Runtime.executionContextsCleared')
RuntimeExecutionContextsCleared(s) ==
  /\ Turn /\ Delivers(s)
  /\ SetRegistry(onExecutionContextsCleared(Registry, s))
  /\ UNCHANGED decoratorVars
  /\ last' = Event("contextsCleared", s, NoId, NoId, NoId)
  /\ UNCHANGED <<isolatedWorlds, scriptsSent, createCalls, page>>
  /\ UNCHANGED <<frames, mainFrame, waitRequests, micro, client, navReceived,
                 listening, session, initPending, swapWait, swapping, nextCtx>>

\* CdpPage.#onBindingCalled for a binding of the page: the asserting lookup; a
\* failed assertion rejects the handler's promise and nothing else happens
RuntimeBindingCalled(id) ==
  /\ Turn /\ Delivers(client)
  /\ SetTree(Tree)
  /\ UNCHANGED decoratorVars
  /\ last' = Event("bindingCalled", client, NoId, id,
                   executionContextById(contexts, id, client))
  /\ UNCHANGED <<isolatedWorlds, scriptsSent, createCalls, page>>
  /\ UNCHANGED <<contexts, client, listening, session, initPending, swapWait,
                 swapping, nextCtx>>

\* CdpPage.#onConsoleAPI: the tolerant lookup; a message of an unknown context
\* is reported to the debug log and dropped
RuntimeConsoleAPICalled(id) ==
  /\ Turn /\ Delivers(client)
  /\ id # 0
  /\ SetTree(Tree)
  /\ UNCHANGED decoratorVars
  /\ last' = Event("consoleAPICalled", client, NoId, id,
                   IF getExecutionContextById(contexts, id, client) = {}
                   THEN "none" ELSE "found")
  /\ UNCHANGED <<isolatedWorlds, scriptsSent, createCalls, page>>
  /\ UNCHANGED <<contexts, client, listening, session, initPending, swapWait,
                 swapping, nextCtx>>

\* A disconnect handler that removes the main frame along with its children.
onClientDisconnect_wholeTree(T) ==
  LET mainF == getMainFrame(T)
  IN  IF mainF = NoFrame THEN T
      ELSE removeFramesRecursively(T, mainF)

\* #onClientDisconnect() up to its await: the children of the main frame go
onClientDisconnect(T) ==
  LET mainF == getMainFrame(T)
  IN  IF mainF = NoFrame THEN T
      ELSE removeAll(T, childFrames(T, mainF))

\* A catch branch that removes the children of the frame but not the frame.
onSwapTimeout_childrenOnly(T, o) == removeAll(T, childFrames(T, o))

\* #onClientDisconnect() after `swapped` timed out: the catch branch
onSwapTimeout(T, o) == removeFramesRecursively(T, o)

\* A swap that re-roots the tree by detaching the main frame and attaching it
\* again, with the notifications of a detach and an attach.
swapFrameTree_detachAttach(T, s) ==
  LET frame == getMainFrame(T)
  IN  IF frame = NoFrame THEN T
      ELSE LET T1 == [T EXCEPT !.nav = @ \cup {TargetId(s)}]
               T2 == emit(removeFrame(T1, frame), FrameDetached, frame)
               T3 == [T2 EXCEPT !.objs[frame] =
                                   clearContexts(updateId(@, TargetId(s)))]
               T4 == emit(addFrame(T3, frame), FrameAttached, frame)
           IN  [T4 EXCEPT !.objs[frame] = updateClient(@, s)]

\* A swap that re-keys the main frame without removing its old entry first.
swapFrameTree_noRemove(T, s) ==
  LET frame == getMainFrame(T)
  IN  IF frame = NoFrame THEN T
      ELSE LET T1 == [T EXCEPT !.nav = @ \cup {TargetId(s)}]
               T3 == [T1 EXCEPT !.objs[frame] =
                                   clearContexts(updateId(@, TargetId(s)))]
               T4 == addFrame(T3, frame)
           IN  [T4 EXCEPT !.objs[frame] = updateClient(@, s)]

\* swapFrameTree(client) on the frame tree, up to its await
swapFrameTree(T, s) ==
  LET frame == getMainFrame(T)
  IN  IF frame = NoFrame THEN T
      ELSE LET T1 == [T EXCEPT !.nav = @ \cup {TargetId(s)}]
               T2 == removeFrame(T1, frame)
               T3 == [T2 EXCEPT !.objs[frame] =
                                   clearContexts(updateId(@, TargetId(s)))]
               T4 == addFrame(T3, frame)
           IN  [T4 EXCEPT !.objs[frame] = updateClient(@, s)]

\* The sessions the manager listens to for CDPSessionEvent.Disconnected: the
\* one it was constructed with and the one swapFrameTree was given.
DisconnectListened(s) ==
  s = PageSession \/ (s = SwapSession /\ s \in listening)

\* CDPSessionEvent.Disconnected of session s: its events stop, and its commands
\* in flight are rejected with a target-closed error (InitializeFailed)
SessionDisconnected(s) ==
  /\ Turn
  /\ session[s] = "ready"
  /\ session' = [session EXCEPT ![s] = "disconnected"]
  /\ initPending' = initPending
  /\ IF DisconnectListened(s)
     THEN /\ SetTree(onClientDisconnect(Tree))
          /\ swapWait' = IF mainFrame = NoFrame THEN swapWait
                         ELSE [swapWait EXCEPT
                                 ![s] = [obj |-> mainFrame, state |-> "pending"]]
     ELSE /\ SetTree(Tree)
          /\ swapWait' = swapWait
  /\ UNCHANGED decoratorVars
  /\ last' = Event("disconnect", s, NoId, NoId, NoId)
  /\ createCalls' = [createCalls EXCEPT ![s] = NoCalls]
  /\ UNCHANGED <<isolatedWorlds, scriptsSent, page>>
  /\ UNCHANGED <<contexts, client, listening, swapping, nextCtx>>

\* TIME_FOR_WAITING_FOR_SWAP elapsed on the `swapped` deferred of session s
SwapTimeout(s) ==
  /\ Turn
  /\ swapWait[s].state = "pending"
  /\ swapWait' = [swapWait EXCEPT ![s].state = "timedout"]
  /\ SetTree(onSwapTimeout(Tree, swapWait[s].obj))
  /\ UNCHANGED decoratorVars
  /\ last' = Event("timeout", s, NoId, NoId, NoId)
  /\ UNCHANGED <<isolatedWorlds, scriptsSent, createCalls, page>>
  /\ UNCHANGED <<contexts, client, listening, session, initPending, swapping,
                 nextCtx>>

\* CDPSessionEvent.Swapped of the tab session: swapFrameTree(newSession) up to
\* the commands initialize sends
SwapFrameTree(s) ==
  /\ Turn
  /\ s = SwapSession /\ session[s] = "new"
  /\ LET R == onExecutionContextsCleared(Registry, client)
     IN  /\ SetTree(swapFrameTree([Tree EXCEPT !.objs = R.objs], s))
         /\ contexts' = R.ctxs
  /\ client' = s
  /\ listening' = listening \cup {s}
  /\ session' = [session EXCEPT ![s] = "ready"]
  /\ initPending' = initPending \cup {s}
  /\ swapping' = [obj |-> mainFrame, state |-> "initializing"]
  /\ UNCHANGED decoratorVars
  /\ last' = Event("swap", s, NoId, NoId, NoId)
  /\ createCalls' = initializeRuntime(Isolated, s).calls
  /\ UNCHANGED <<isolatedWorlds, scriptsSent, page>>
  /\ UNCHANGED <<swapWait, nextCtx>>

\* swapFrameTree after initialize returned: FrameSwappedByActivation is emitted
\* on the frame it captured, which resolves the `swapped` deferreds listening
\* on that frame; the page's Swapped handler then runs #setupEventListeners
SwapComplete ==
  /\ micro = << >>
  /\ swapping.state = "initializing"
  /\ SwapSession \notin initPending
  /\ swapping' = [swapping EXCEPT !.state = "done"]
  /\ swapWait' = [s \in Sessions |->
                    IF /\ swapWait[s].state = "pending"
                       /\ swapWait[s].obj = swapping.obj
                       /\ swapping.obj # NoFrame
                    THEN [swapWait[s] EXCEPT !.state = "resolved"]
                    ELSE swapWait[s]]
  /\ SetTree(Tree)
  /\ UNCHANGED decoratorVars
  /\ last' = Event("swapComplete", SwapSession, NoId, NoId, NoId)
  /\ page' = pageSetupEventListeners(page, client)
  /\ UNCHANGED <<isolatedWorlds, scriptsSent, createCalls>>
  /\ UNCHANGED <<contexts, client, listening, session, initPending, nextCtx,
                 budget>>

TargetClosedError == "TargetClosedError"
ProtocolError == "ProtocolError"
\* The errors a command of initialize may be rejected with.
Errors == {TargetClosedError, ProtocolError}

\* isTargetClosedError(error)
isTargetClosedError(error) == error = TargetClosedError

\* An initialize whose catch branch rethrows whatever it caught.
initialize_rethrowAll(error) == "threw"

\* initialize(client) when one of its commands is rejected with `error`: what
\* the catch branch gives the caller
initialize(error) ==
  IF isTargetClosedError(error) THEN "returned" ELSE "threw"

\* CdpPage.#initialize when one of its commands, or frameManager.initialize,
\* is rejected with `error`
pageInitialize(error) ==
  IF isTargetClosedError(error) THEN "returned" ELSE "threw"

\* The Page.getFrameTree of initialize(s) is rejected: with a target-closed
\* error right after the session disconnected, with a protocol error while it
\* is connected.  The catch branch touches neither the tree nor the registry;
\* the page session was initialized by CdpPage.#initialize, the replacement
\* session by swapFrameTree, which ends without its swap signal when
\* initialize throws.
InitializeFailed(s, error) ==
  /\ s \in initPending
  /\ IF isTargetClosedError(error)
     THEN micro = << >> /\ session[s] = "disconnected" /\ budget' = budget
     ELSE Turn /\ session[s] = "ready"
  /\ initPending' = initPending \ {s}
  /\ LET thrown == initialize(error) = "threw"
         outcome == IF ~thrown THEN "returned"
                    ELSE IF s = PageSession THEN pageInitialize(error)
                    ELSE "threw"
     IN  /\ swapping' = IF /\ s = SwapSession
                           /\ swapping.state = "initializing"
                           /\ thrown
                        THEN [swapping EXCEPT !.state = "failed"]
                        ELSE swapping
         /\ last' = Event("initializeFailed", s, NoId, error, outcome)
  /\ SetTree(Tree)
  /\ UNCHANGED decoratorVars
  /\ UNCHANGED <<isolatedWorlds, scriptsSent, createCalls, page>>
  /\ UNCHANGED <<contexts, client, listening, session, swapWait, nextCtx>>

Payload(id, parentId, url, loaderId) ==
  [id |-> id, parentId |-> parentId, url |-> url, loaderId |-> loaderId]

\* The frame trees Page.getFrameTree may answer with on session s, each in the
\* order #handleFrameTree visits it: the root is the session's target.
Snapshots(s) ==
  LET r == TargetId(s)
      rp == IF s = OopifSession THEN "A" ELSE NoId
      roots == {Payload(r, rp, "u1", "L1")}
  IN  IF s = OopifSession
      THEN {<<x>> : x \in roots}
             \cup {<<x, Payload("C", r, "u1", "L1")>> : x \in roots}
      ELSE {<<x>> : x \in roots}
             \cup {<<x, Payload("B", r, "u1", "L1")>> : x \in roots}
             \cup {<<x, Payload("B", r, "u1", "L1"),
                     Payload("C", "B", "u1", "L1")>> : x \in roots}

\* the response of Page.getFrameTree sent by initialize(session)
FrameTreeResponse(s, tree) ==
  /\ Turn
  /\ s \in initPending /\ session[s] = "ready"
  /\ initPending' = initPending \ {s}
  /\ SetTree(handleFrameTree(Tree, client, s, tree))
  /\ Len(waitRequests') <= MaxWaits
  /\ UNCHANGED decoratorVars
  /\ last' = Event("frameTree", s, NoId, Len(tree), NoId)
  /\ UNCHANGED <<isolatedWorlds, scriptsSent, createCalls, page>>
  /\ UNCHANGED <<contexts, client, listening, session, swapWait, swapping,
                 nextCtx>>

\* onAttachedToTarget(target) for the iframe target of session s
onAttachedToTarget(T, s) ==
  LET frame == getById(T, TargetId(s))
  IN  IF frame = NoFrame THEN T
      ELSE [T EXCEPT !.objs[frame] = updateClient(@, s)]

\* CDPSessionEvent.Ready on the page's client for an iframe target
AttachedToTarget(s) ==
  /\ Turn
  /\ s = OopifSession /\ session[s] = "new"
  /\ Delivers(client)
  /\ SetTree(onAttachedToTarget(Tree, s))
  /\ listening' = listening \cup {s}
  /\ session' = [session EXCEPT ![s] = "ready"]
  /\ initPending' = initPending \cup {s}
  /\ UNCHANGED decoratorVars
  /\ last' = Event("attachedToTarget", s, NoId, NoId, NoId)
  /\ createCalls' = initializeRuntime(Isolated, s).calls
  /\ UNCHANGED <<isolatedWorlds, scriptsSent, page>>
  /\ UNCHANGED <<contexts, client, swapWait, swapping, nextCtx>>

\* The initialize calls of session s that have not returned.
CallsInFlight(s) ==
  createCalls[s].enable + createCalls[s].script + createCalls[s].worlds

\* initialize(client) is called for a session the manager listens to, while
\* an earlier call for it may still be in flight
Initialize(s) ==
  /\ Turn /\ Delivers(s)
  /\ CallsInFlight(s) < MaxInitCalls
  /\ initPending' = initPending \cup {s}
  /\ SetIsolated(initializeRuntime(Isolated, s))
  /\ SetTree(Tree)
  /\ UNCHANGED decoratorVars
  /\ last' = Event("initialize", s, NoId, NoId, NoId)
  /\ UNCHANGED <<contexts, client, listening, session, swapWait, swapping,
                 nextCtx, page>>

\* the response of Runtime.enable sent by an initialize(s)
RuntimeEnabled(s) ==
  /\ Turn /\ session[s] = "ready"
  /\ createCalls[s].enable > 0
  /\ SetIsolated(createIsolatedWorld(Isolated, s))
  /\ SetTree(Tree)
  /\ UNCHANGED decoratorVars
  /\ last' = Event("runtimeEnabled", s, NoId, NoId, NoId)
  /\ UNCHANGED <<contexts, client, listening, session, initPending, swapWait,
                 swapping, nextCtx, page>>

\* the response of Page.addScriptToEvaluateOnNewDocument
ScriptAdded(s) ==
  /\ Turn /\ session[s] = "ready"
  /\ createCalls[s].script > 0
  /\ SetIsolated(createIsolatedWorldFrames(Isolated, s))
  /\ SetTree(Tree)
  /\ UNCHANGED decoratorVars
  /\ last' = Event("scriptAdded", s, NoId, NoId, NoId)
  /\ UNCHANGED <<contexts, client, listening, session, initPending, swapWait,
                 swapping, nextCtx, page>>

\* the responses of the Page.createIsolatedWorld commands
WorldsCreated(s) ==
  /\ Turn /\ session[s] = "ready"
  /\ createCalls[s].worlds > 0
  /\ SetIsolated(createIsolatedWorldAdd(Isolated, s))
  /\ SetTree(Tree)
  /\ UNCHANGED decoratorVars
  /\ last' = Event("worldsCreated", s, NoId, NoId, NoId)
  /\ UNCHANGED <<contexts, client, listening, session, initPending, swapWait,
                 swapping, nextCtx, page>>

\* target._isClosedDeferred of the page target of session s is resolved
TargetClosed(s) ==
  /\ Turn
  /\ s \in {PageSession, SwapSession}
  /\ session[s] # "new"
  /\ s \notin page.targetsClosed
  /\ page' = onTargetClosed(page, s)
  /\ SetTree(Tree)
  /\ UNCHANGED decoratorVars
  /\ last' = Event("targetClosed", s, NoId, NoId, NoId)
  /\ UNCHANGED <<contexts, client, listening, session, initPending, swapWait,
                 swapping, nextCtx, isolatedWorlds, scriptsSent, createCalls>>

\* A caller starts to wait on the main frame (a deferred scoped to the frame).
StartWait ==
  /\ micro = << >>
  /\ mainFrame # NoFrame
  /\ objs[mainFrame].wait = "none"
  /\ SetTree([Tree EXCEPT !.objs[mainFrame].wait = "pending"])
  /\ UNCHANGED decoratorVars
  /\ last' = Event("wait", NoId, objs[mainFrame].id, NoId, NoId)
  /\ UNCHANGED <<isolatedWorlds, scriptsSent, createCalls, page>>
  /\ UNCHANGED <<contexts, client, listening, session, initPending, swapWait,
                 swapping, nextCtx, budget>>

Next ==
  \/ \E s \in Sessions, f \in ChildIds : \E p \in ParentChoices(f) :
       PageFrameAttached(s, f, p)
  \/ \E f \in MainIds, d \in Documents : PageFrameNavigated(f, NoId, d[1], d[2])
  \/ \E f \in ChildIds, d \in Documents :
       PageFrameNavigated(f, SomeParent, d[1], d[2])
  \/ Microtask
  \/ \E f \in EventFrames, r \in {"remove", "swap"} : PageFrameDetached(f, r)
  \/ \E f \in EventFrames, l \in Loaders, n \in LifecycleNames :
       PageLifecycleEvent(f, l, n)
  \/ \E f \in EventFrames, u \in Urls : PageNavigatedWithinDocument(f, u)
  \/ \E s \in Sessions, f \in EventFrames \cup {NoId}, r \in Realms :
       RuntimeExecutionContextCreated(s, f, r[1], r[2])
  \/ \E s \in Sessions, id \in 1..(nextCtx - 1) :
       RuntimeExecutionContextDestroyed(s, id)
  \/ \E s \in Sessions : RuntimeExecutionContextsCleared(s)
  \/ \E id \in 1..MaxCtx : RuntimeBindingCalled(id)
  \/ \E id \in 1..MaxCtx : RuntimeConsoleAPICalled(id)
  \/ \E s \in Sessions : SessionDisconnected(s)
  \/ \E s \in Sessions : SwapTimeout(s)
  \/ \E s \in Sessions : SwapFrameTree(s)
  \/ SwapComplete
  \/ \E s \in Sessions : \E t \in Snapshots(s) : FrameTreeResponse(s, t)
  \/ \E s \in Sessions : AttachedToTarget(s)
  \/ \E s \in Sessions, e \in Errors : InitializeFailed(s, e)
  \/ StartWait

Spec == Init /\ [][Next]_vars

(* The registry over a longer run: the page session's frame tree, an      *)
(* out-of-process iframe target and the execution-context events.          *)

\* Events delivered in one run of the registry specification.
MaxRegistryEvents == 5

InitRegistry ==
  /\ objs = << >>
  /\ frames = [id \in FrameIds |-> NoFrame]
  /\ mainFrame = NoFrame
  /\ waitRequests = << >>
  /\ micro = << >>
  /\ contexts = {}
  /\ client = PageSession
  /\ navReceived = {}
  /\ listening = {PageSession}
  /\ session = [s \in Sessions |-> IF s = PageSession THEN "ready" ELSE "new"]
  /\ initPending = {PageSession}
  /\ swapWait = [s \in Sessions |-> NoSwapWait]
  /\ swapping = [obj |-> NoFrame, state |-> "none"]
  /\ nextCtx = 1
  /\ emitted = << >>
  /\ last = Event("init", NoId, NoId, NoId, NoId)
  /\ isolatedWorlds = {}
  /\ scriptsSent = [s \in Sessions |-> 0]
  /\ createCalls = [s \in Sessions |->
                      IF s = PageSession THEN [NoCalls EXCEPT !.enable = 1]
                      ELSE NoCalls]
  /\ page = pageSetupEventListeners(NoPage, PageSession)
  /\ forwarded = << >>
  /\ instances = {}
  /\ released = [h \in Handles |-> 0]
  /\ handleCalls = [h \in Handles |-> << >>]
  /\ cache = {}
  /\ cacheDepth = -1
  /\ invoked = << >>
  /\ memoCalls = << >>
  /\ budget = MaxRegistryEvents

NextRegistry ==
  \/ \E s \in Sessions : \E t \in Snapshots(s) : FrameTreeResponse(s, t)
  \/ Microtask
  \/ \E s \in Sessions : AttachedToTarget(s)
  \/ \E s \in Sessions, f \in EventFrames \cup {NoId}, r \in Realms :
       RuntimeExecutionContextCreated(s, f, r[1], r[2])
  \/ \E s \in Sessions, id \in 1..(nextCtx - 1) :
       RuntimeExecutionContextDestroyed(s, id)
  \/ \E s \in Sessions : RuntimeExecutionContextsCleared(s)

RegistrySpec == InitRegistry /\ [][NextRegistry]_vars

(* The swap protocol over a longer run: the frame-tree responses of the    *)
(* page sessions, their disconnects, the swap and the grace deadline.      *)

\* Events delivered in one run of the swap specification.
MaxSwapEvents == 5

InitSwap ==
  /\ objs = << >>
  /\ frames = [id \in FrameIds |-> NoFrame]
  /\ mainFrame = NoFrame
  /\ waitRequests = << >>
  /\ micro = << >>
  /\ contexts = {}
  /\ client = PageSession
  /\ navReceived = {}
  /\ listening = {PageSession}
  /\ session = [s \in Sessions |-> IF s = PageSession THEN "ready" ELSE "new"]
  /\ initPending = {PageSession}
  /\ swapWait = [s \in Sessions |-> NoSwapWait]
  /\ swapping = [obj |-> NoFrame, state |-> "none"]
  /\ nextCtx = 1
  /\ emitted = << >>
  /\ last = Event("init", NoId, NoId, NoId, NoId)
  /\ isolatedWorlds = {}
  /\ scriptsSent = [s \in Sessions |-> 0]
  /\ createCalls = [s \in Sessions |->
                      IF s = PageSession THEN [NoCalls EXCEPT !.enable = 1]
                      ELSE NoCalls]
  /\ page = pageSetupEventListeners(NoPage, PageSession)
  /\ forwarded = << >>
  /\ instances = {}
  /\ released = [h \in Handles |-> 0]
  /\ handleCalls = [h \in Handles |-> << >>]
  /\ cache = {}
  /\ cacheDepth = -1
  /\ invoked = << >>
  /\ memoCalls = << >>
  /\ budget = MaxSwapEvents

NextSwap ==
  \/ \E s \in Sessions : \E t \in Snapshots(s) : FrameTreeResponse(s, t)
  \/ Microtask
  \/ \E s \in Sessions : SessionDisconnected(s)
  \/ \E s \in Sessions : SwapTimeout(s)
  \/ \E s \in Sessions : SwapFrameTree(s)
  \/ SwapComplete
  \/ \E s \in Sessions, e \in Errors : InitializeFailed(s, e)

SwapSpec == InitSwap /\ [][NextSwap]_vars

(* The loading and lifecycle events of the frames of the page session's     *)
(* frame tree.                                                             *)

\* Events delivered in one run of the loading specification.
MaxLoadingEvents == 3

InitLoading ==
  /\ objs = << >>
  /\ frames = [id \in FrameIds |-> NoFrame]
  /\ mainFrame = NoFrame
  /\ waitRequests = << >>
  /\ micro = << >>
  /\ contexts = {}
  /\ client = PageSession
  /\ navReceived = {}
  /\ listening = {PageSession}
  /\ session = [s \in Sessions |-> IF s = PageSession THEN "ready" ELSE "new"]
  /\ initPending = {PageSession}
  /\ swapWait = [s \in Sessions |-> NoSwapWait]
  /\ swapping = [obj |-> NoFrame, state |-> "none"]
  /\ nextCtx = 1
  /\ emitted = << >>
  /\ last = Event("init", NoId, NoId, NoId, NoId)
  /\ isolatedWorlds = {}
  /\ scriptsSent = [s \in Sessions |-> 0]
  /\ createCalls = [s \in Sessions |->
                      IF s = PageSession THEN [NoCalls EXCEPT !.enable = 1]
                      ELSE NoCalls]
  /\ page = pageSetupEventListeners(NoPage, PageSession)
  /\ forwarded = << >>
  /\ instances = {}
  /\ released = [h \in Handles |-> 0]
  /\ handleCalls = [h \in Handles |-> << >>]
  /\ cache = {}
  /\ cacheDepth = -1
  /\ invoked = << >>
  /\ memoCalls = << >>
  /\ budget = MaxLoadingEvents

NextLoading ==
  \/ \E s \in Sessions : \E t \in Snapshots(s) : FrameTreeResponse(s, t)
  \/ Microtask
  \/ \E f \in EventFrames, r \in {"remove", "swap"} : PageFrameDetached(f, r)
  \/ \E f \in EventFrames, l \in Loaders, n \in LifecycleNames :
       PageLifecycleEvent(f, l, n)
  \/ \E f \in EventFrames : PageFrameStartedLoading(f)
  \/ \E f \in EventFrames : PageFrameStoppedLoading(f)
  \/ \E f \in EventFrames, u \in Urls : PageNavigatedWithinDocument(f, u)

LoadingSpec == InitLoading /\ [][NextLoading]_vars

(* The initialize calls of the sessions and their utility worlds.          *)

\* Events delivered in one run of the initialization specification.
MaxInitEvents == 5

InitInitialize ==
  /\ objs = << >>
  /\ frames = [id \in FrameIds |-> NoFrame]
  /\ mainFrame = NoFrame
  /\ waitRequests = << >>
  /\ micro = << >>
  /\ contexts = {}
  /\ client = PageSession
  /\ navReceived = {}
  /\ listening = {PageSession}
  /\ session = [s \in Sessions |-> IF s = PageSession THEN "ready" ELSE "new"]
  /\ initPending = {PageSession}
  /\ swapWait = [s \in Sessions |-> NoSwapWait]
  /\ swapping = [obj |-> NoFrame, state |-> "none"]
  /\ nextCtx = 1
  /\ emitted = << >>
  /\ last = Event("init", NoId, NoId, NoId, NoId)
  /\ isolatedWorlds = {}
  /\ scriptsSent = [s \in Sessions |-> 0]
  /\ createCalls = [s \in Sessions |->
                      IF s = PageSession THEN [NoCalls EXCEPT !.enable = 1]
                      ELSE NoCalls]
  /\ page = pageSetupEventListeners(NoPage, PageSession)
  /\ forwarded = << >>
  /\ instances = {}
  /\ released = [h \in Handles |-> 0]
  /\ handleCalls = [h \in Handles |-> << >>]
  /\ cache = {}
  /\ cacheDepth = -1
  /\ invoked = << >>
  /\ memoCalls = << >>
  /\ budget = MaxInitEvents

NextInitialize ==
  \/ \E s \in Sessions : \E t \in Snapshots(s) : FrameTreeResponse(s, t)
  \/ Microtask
  \/ \E s \in Sessions : AttachedToTarget(s)
  \/ \E s \in Sessions : Initialize(s)
  \/ \E s \in Sessions : RuntimeEnabled(s)
  \/ \E s \in Sessions : ScriptAdded(s)
  \/ \E s \in Sessions : WorldsCreated(s)

InitSpec == InitInitialize /\ [][NextInitialize]_vars

(* The page over a swap: the notifications it forwards and its closing.    *)

\* Events delivered in one run of the page specification.
MaxPageEvents == 4

InitPage ==
  /\ objs = << >>
  /\ frames = [id \in FrameIds |-> NoFrame]
  /\ mainFrame = NoFrame
  /\ waitRequests = << >>
  /\ micro = << >>
  /\ contexts = {}
  /\ client = PageSession
  /\ navReceived = {}
  /\ listening = {PageSession}
  /\ session = [s \in Sessions |-> IF s = PageSession THEN "ready" ELSE "new"]
  /\ initPending = {PageSession}
  /\ swapWait = [s \in Sessions |-> NoSwapWait]
  /\ swapping = [obj |-> NoFrame, state |-> "none"]
  /\ nextCtx = 1
  /\ emitted = << >>
  /\ last = Event("init", NoId, NoId, NoId, NoId)
  /\ isolatedWorlds = {}
  /\ scriptsSent = [s \in Sessions |-> 0]
  /\ createCalls = [s \in Sessions |->
                      IF s = PageSession THEN [NoCalls EXCEPT !.enable = 1]
                      ELSE NoCalls]
  /\ page = pageSetupEventListeners(NoPage, PageSession)
  /\ forwarded = << >>
  /\ instances = {}
  /\ released = [h \in Handles |-> 0]
  /\ handleCalls = [h \in Handles |-> << >>]
  /\ cache = {}
  /\ cacheDepth = -1
  /\ invoked = << >>
  /\ memoCalls = << >>
  /\ budget = MaxPageEvents

NextPage ==
  \/ \E s \in Sessions : \E t \in Snapshots(s) : FrameTreeResponse(s, t)
  \/ Microtask
  \/ \E s \in Sessions, f \in ChildIds : \E p \in ParentChoices(f) :
       PageFrameAttached(s, f, p)
  \/ \E f \in EventFrames, r \in {"remove", "swap"} : PageFrameDetached(f, r)
  \/ \E s \in Sessions : SwapFrameTree(s)
  \/ SwapComplete
  \/ \E s \in Sessions, e \in Errors : InitializeFailed(s, e)
  \/ \E s \in Sessions : TargetClosed(s)

PageSpec == InitPage /\ [][NextPage]_vars

(* The ways a frame is removed, over a longer run: the navigation of its   *)
(* parent, a frame-detached event, the disconnect of a page session and    *)
(* the grace deadline, around a swap.                                      *)

\* Events delivered in one run of the removal specification.
MaxDetachEvents == 5

InitDetach ==
  /\ objs = << >>
  /\ frames = [id \in FrameIds |-> NoFrame]
  /\ mainFrame = NoFrame
  /\ waitRequests = << >>
  /\ micro = << >>
  /\ contexts = {}
  /\ client = PageSession
  /\ navReceived = {}
  /\ listening = {PageSession}
  /\ session = [s \in Sessions |-> IF s = PageSession THEN "ready" ELSE "new"]
  /\ initPending = {PageSession}
  /\ swapWait = [s \in Sessions |-> NoSwapWait]
  /\ swapping = [obj |-> NoFrame, state |-> "none"]
  /\ nextCtx = 1
  /\ emitted = << >>
  /\ last = Event("init", NoId, NoId, NoId, NoId)
  /\ isolatedWorlds = {}
  /\ scriptsSent = [s \in Sessions |-> 0]
  /\ createCalls = [s \in Sessions |->
                      IF s = PageSession THEN [NoCalls EXCEPT !.enable = 1]
                      ELSE NoCalls]
  /\ page = pageSetupEventListeners(NoPage, PageSession)
  /\ forwarded = << >>
  /\ instances = {}
  /\ released = [h \in Handles |-> 0]
  /\ handleCalls = [h \in Handles |-> << >>]
  /\ cache = {}
  /\ cacheDepth = -1
  /\ invoked = << >>
  /\ memoCalls = << >>
  /\ budget = MaxDetachEvents

NextDetach ==
  \/ \E s \in Sessions : \E t \in Snapshots(s) : FrameTreeResponse(s, t)
  \/ \E f \in MainIds, d \in Documents : PageFrameNavigated(f, NoId, d[1], d[2])
  \/ Microtask
  \/ \E f \in EventFrames, r \in {"remove", "swap"} : PageFrameDetached(f, r)
  \/ \E s \in Sessions : SessionDisconnected(s)
  \/ \E s \in Sessions : SwapTimeout(s)
  \/ \E s \in Sessions : SwapFrameTree(s)
  \/ SwapComplete
  \/ \E s \in Sessions, e \in Errors : InitializeFailed(s, e)

DetachSpec == InitDetach /\ [][NextDetach]_vars

(* The handles of moveable classes: move and the two dispose methods.      *)

\* Calls made on the handles in one run.
MaxHandleCalls == 4

Moveable == [instances |-> instances, released |-> released]

SetMoveable(M) ==
  /\ instances' = M.instances
  /\ released' = M.released

\* handle.move()
Move(h) ==
  /\ budget > 0 /\ budget' = budget - 1
  /\ SetMoveable(move(Moveable, h))
  /\ handleCalls' = [handleCalls EXCEPT ![h] = Append(@, "move")]
  /\ last' = Event("move", NoId, h, NoId, NoId)
  /\ UNCHANGED <<managerVars, cache, cacheDepth, invoked, memoCalls>>

\* handle[Symbol.dispose](), as at the end of a `using` block
Dispose(h) ==
  /\ budget > 0 /\ budget' = budget - 1
  /\ "dispose" \in Disposers(h)
  /\ SetMoveable(moveableDispose(Moveable, h))
  /\ handleCalls' = [handleCalls EXCEPT ![h] = Append(@, "dispose")]
  /\ last' = Event("dispose", NoId, h, NoId, NoId)
  /\ UNCHANGED <<managerVars, cache, cacheDepth, invoked, memoCalls>>

\* handle[Symbol.asyncDispose](), as at the end of an `await using` block
AsyncDispose(h) ==
  /\ budget > 0 /\ budget' = budget - 1
  /\ "asyncDispose" \in Disposers(h)
  /\ SetMoveable(moveableAsyncDispose(Moveable, h))
  /\ handleCalls' = [handleCalls EXCEPT ![h] = Append(@, "asyncDispose")]
  /\ last' = Event("asyncDispose", NoId, h, NoId, NoId)
  /\ UNCHANGED <<managerVars, cache, cacheDepth, invoked, memoCalls>>

InitMoveable ==
  /\ objs = << >>
  /\ frames = [id \in FrameIds |-> NoFrame]
  /\ mainFrame = NoFrame
  /\ waitRequests = << >>
  /\ micro = << >>
  /\ contexts = {}
  /\ client = PageSession
  /\ navReceived = {}
  /\ listening = {PageSession}
  /\ session = [s \in Sessions |-> IF s = PageSession THEN "ready" ELSE "new"]
  /\ initPending = {PageSession}
  /\ swapWait = [s \in Sessions |-> NoSwapWait]
  /\ swapping = [obj |-> NoFrame, state |-> "none"]
  /\ nextCtx = 1
  /\ emitted = << >>
  /\ last = Event("init", NoId, NoId, NoId, NoId)
  /\ isolatedWorlds = {}
  /\ scriptsSent = [s \in Sessions |-> 0]
  /\ createCalls = [s \in Sessions |->
                      IF s = PageSession THEN [NoCalls EXCEPT !.enable = 1]
                      ELSE NoCalls]
  /\ page = pageSetupEventListeners(NoPage, PageSession)
  /\ forwarded = << >>
  /\ instances = {}
  /\ released = [h \in Handles |-> 0]
  /\ handleCalls = [h \in Handles |-> << >>]
  /\ cache = {}
  /\ cacheDepth = -1
  /\ invoked = << >>
  /\ memoCalls = << >>
  /\ budget = MaxHandleCalls

NextMoveable ==
  \/ \E h \in Handles : Move(h)
  \/ \E h \in Handles : Dispose(h)
  \/ \E h \in Handles : AsyncDispose(h)

MoveableSpec == InitMoveable /\ [][NextMoveable]_vars

(* A method decorated with invokeAtMostOnceForArguments.                   *)

\* Calls of the decorated method in one run.
MaxMemoCalls == 3

Memo == [cache |-> cache, cacheDepth |-> cacheDepth, invoked |-> invoked,
         outcome |-> "none"]

\* the decorated method is called with the tuple args
Call(args) ==
  /\ budget > 0 /\ budget' = budget - 1
  /\ LET C == invokeAtMostOnceForArguments(Memo, args)
     IN  /\ cache' = C.cache
         /\ cacheDepth' = C.cacheDepth
         /\ invoked' = C.invoked
         /\ last' = Event("call", NoId, NoId, args, C.outcome)
  /\ memoCalls' = Append(memoCalls, args)
  /\ UNCHANGED <<managerVars, instances, released, handleCalls>>

InitMemo ==
  /\ objs = << >>
  /\ frames = [id \in FrameIds |-> NoFrame]
  /\ mainFrame = NoFrame
  /\ waitRequests = << >>
  /\ micro = << >>
  /\ contexts = {}
  /\ client = PageSession
  /\ navReceived = {}
  /\ listening = {PageSession}
  /\ session = [s \in Sessions |-> IF s = PageSession THEN "ready" ELSE "new"]
  /\ initPending = {PageSession}
  /\ swapWait = [s \in Sessions |-> NoSwapWait]
  /\ swapping = [obj |-> NoFrame, state |-> "none"]
  /\ nextCtx = 1
  /\ emitted = << >>
  /\ last = Event("init", NoId, NoId, NoId, NoId)
  /\ isolatedWorlds = {}
  /\ scriptsSent = [s \in Sessions |-> 0]
  /\ createCalls = [s \in Sessions |->
                      IF s = PageSession THEN [NoCalls EXCEPT !.enable = 1]
                      ELSE NoCalls]
  /\ page = pageSetupEventListeners(NoPage, PageSession)
  /\ forwarded = << >>
  /\ instances = {}
  /\ released = [h \in Handles |-> 0]
  /\ handleCalls = [h \in Handles |-> << >>]
  /\ cache = {}
  /\ cacheDepth = -1
  /\ invoked = << >>
  /\ memoCalls = << >>
  /\ budget = MaxMemoCalls

NextMemo == \E args \in Tuples : Call(args)

MemoSpec == InitMemo /\ [][NextMemo]_vars

(* ------------------------------ properties ---------------------------- *)
(* A step is identified by the event it handled: last' names the handler   *)
(* and its arguments, the unprimed variables are the state it ran in and   *)
(* emitted' is what it emitted.                                            *)

\* object o is the entry of its own id in the tree fs
Resolvable(os, fs, o) == fs[os[o].id] = o

\* the objects of the tree on the parent chain of object o (n bounds the climb)
RECURSIVE AncestorsOf(_, _, _, _)
AncestorsOf(os, fs, o, n) ==
  IF n = 0 \/ os[o].parentId \notin FrameIds THEN {}
  ELSE LET p == fs[os[o].parentId]
       IN  IF p = NoFrame THEN {} ELSE {p} \cup AncestorsOf(os, fs, p, n - 1)

\* the objects of the tree that have object a on their parent chain
Descendants(os, fs, a) ==
  {d \in 1..Len(os) : Resolvable(os, fs, d) /\ a \in AncestorsOf(os, fs, d, Len(os))}

\* C1: a frame-attached event for a frame id that is already in the tree
\* constructs no Frame object and emits no notification; on the existing
\* Frame (and every other one) nothing but the session binding may change.
C1_DuplicateAttach ==
  [][(last'.kind = "attach" /\ frames[last'.f] # NoFrame) =>
       /\ Len(objs') = Len(objs)
       /\ frames' = frames
       /\ mainFrame' = mainFrame
       /\ emitted' = << >>
       /\ \A o \in 1..Len(objs) :
            [objs'[o] EXCEPT !.client = objs[o].client] = objs[o]]_vars

\* a duplicate attach of an out-of-process frame was handled: nothing was
\* emitted and the frame is bound to the session that delivered the event
C1_Witness ==
  /\ last.kind = "attach"
  /\ frames[last.f] # NoFrame
  /\ emitted = << >>
  /\ Len(objs) = 1
  /\ session[OopifSession] = "ready"
  /\ objs[frames[last.f]].client = last.s

\* C2: when the page session has disconnected and the swap to the replacement
\* session arrives while the grace window is open, swapFrameTree keeps the main
\* Frame object: getMainFrame still returns it, it is the entry of the new
\* target's id, and its old id resolves to nothing.
C2_SwapKeepsMainFrame ==
  [][(/\ last'.kind = "swap"
      /\ swapWait[PageSession].state = "pending"
      /\ mainFrame # NoFrame) =>
       LET new == TargetId(last'.s)
           old == objs[mainFrame].id
       IN  /\ mainFrame' = mainFrame
           /\ frames'[new] = mainFrame
           /\ objs'[mainFrame].id = new
           /\ ~objs'[mainFrame].detached
           /\ Len(objs') = Len(objs)
           /\ old # new => frames'[old] = NoFrame]_vars

\* the swap has re-keyed the main frame the disconnect handler is holding
C2_Witness ==
  /\ last.kind = "swap"
  /\ swapWait[PageSession] = [obj |-> mainFrame, state |-> "pending"]
  /\ mainFrame # NoFrame
  /\ frames[TargetId(SwapSession)] = mainFrame
  /\ frames[TargetId(PageSession)] = NoFrame

\* C3: when the grace window of a disconnect expires, the frame the disconnect
\* handler held is removed: no id resolves to it, it is not the main frame, and
\* a wait that was pending on it has failed with TargetClosed.
C3_TimeoutRemovesMainFrame ==
  [][(last'.kind = "timeout") =>
       LET o == swapWait[last'.s].obj
       IN  /\ \A id \in FrameIds : frames'[id] # o
           /\ mainFrame' # o
           /\ objs'[o].detached
           /\ objs'[o].wait # "pending"
           /\ objs[o].wait = "pending" => objs'[o].wait = "TargetClosed"]_vars

\* the window expired with no swap announced, and the wait on the frame failed
C3_Witness ==
  /\ last.kind = "timeout"
  /\ swapping.state = "none"
  /\ session[SwapSession] = "new"
  /\ objs[swapWait[last.s].obj].wait = "TargetClosed"
  /\ mainFrame = NoFrame

\* C4: a frame-detached event with reason "remove" for a frame with N
\* descendants emits exactly N+1 FrameDetached notifications, one per frame,
\* every descendant's before those of its ancestors, and leaves none of the
\* N+1 ids resolvable.
C4_RecursiveDetach ==
  [][(/\ last'.kind = "detach"
      /\ last'.a = "remove"
      /\ frames[last'.f] # NoFrame) =>
       LET o == frames[last'.f]
           D == Descendants(objs, frames, o) \cup {o}
           n == Len(emitted')
       IN  /\ n = Cardinality(D)
           /\ \A i \in 1..n : emitted'[i][1] = FrameDetached /\ emitted'[i][2] \in D
           /\ \A i, j \in 1..n : i # j => emitted'[i][2] # emitted'[j][2]
           /\ \A i, j \in 1..n :
                emitted'[j][2] \in AncestorsOf(objs, frames, emitted'[i][2], Len(objs))
                  => i < j
           /\ \A d \in D : frames'[objs[d].id] = NoFrame]_vars

\* a frame with two descendants (a child and a grandchild) was detached
C4_Witness ==
  /\ last.kind = "detach"
  /\ last.a = "remove"
  /\ Len(emitted) = 3
  /\ \A i \in 1..3 : emitted[i][1] = FrameDetached
  /\ objs[emitted[1][2]].parentId = objs[emitted[2][2]].id
  /\ objs[emitted[2][2]].parentId = objs[emitted[3][2]].id

\* C5: a lifecycle event whose loader id is not the current loader id of its
\* frame changes no frame and emits no notification.
C5_StaleLifecycleDropped ==
  [][(/\ last'.kind = "lifecycle"
      /\ frames[last'.f] # NoFrame
      /\ last'.a # objs[frames[last'.f]].loaderId) =>
       /\ objs' = objs
       /\ emitted' = << >>]_vars

\* the context-created events that name the utility world for a frame of the
\* tree whose utility World holds a context: the event the step handled
SecondUtility ==
  /\ last'.kind = "contextCreated"
  /\ last'.a = FALSE
  /\ last'.b = UTILITY_WORLD_NAME
  /\ last'.f \in FrameIds
  /\ frames[last'.f] # NoFrame
  /\ objs[frames[last'.f]].util # NoCtx

\* the registry entries the World w of object o holds
HeldBy(os, ctxs, o, w) ==
  {c \in ctxs : Key(c) = (IF w = MAIN_WORLD THEN os[o].main ELSE os[o].util)}

\* C6: every World holds at most one live ExecutionContext (a World that holds
\* one holds exactly one registry entry, created for that World of that
\* frame), and a context-created event naming the utility world for a frame
\* whose utility World already holds a context changes no frame, no World and
\* no registry entry.
C6_SecondUtilityContextIsNoOp ==
  /\ [](\A o \in 1..Len(objs) : \A w \in {MAIN_WORLD, PUPPETEER_WORLD} :
          LET held == HeldBy(objs, contexts, o, w)
          IN  /\ Cardinality(held) <= 1
              /\ hasContext(objs[o], w) =>
                   /\ Cardinality(held) = 1
                   /\ \A c \in held : c.obj = o /\ c.world = w)
  /\ [][SecondUtility => (objs' = objs /\ contexts' = contexts)]_vars

\* a second utility-world realm was announced by the frame's own session while
\* the World held the first: the World still holds the first
C6_Witness ==
  /\ last.kind = "contextCreated"
  /\ last.a = FALSE
  /\ last.b = UTILITY_WORLD_NAME
  /\ last.f \in FrameIds
  /\ frames[last.f] # NoFrame
  /\ objs[frames[last.f]].client = last.s
  /\ objs[frames[last.f]].util = [session |-> last.s, id |-> 1]
  /\ nextCtx = 3

\* the second of two utility-world realms the frame's session announces for a
\* frame: the step that handles it
SecondOfSameSession ==
  /\ SecondUtility
  /\ objs[frames[last'.f]].client = last'.s
  /\ objs[frames[last'.f]].util.session = last'.s

\* C7 as stated: of two utility-world realms the same session announces for a
\* frame, the first stays bound to the World and the second is reachable
\* through getExecutionContextById with its session and context id.
C7_SecondReachableById ==
  [][SecondOfSameSession =>
       /\ objs'[frames[last'.f]].util = objs[frames[last'.f]].util
       /\ getExecutionContextById(contexts', nextCtx, last'.s) # {}]_vars

\* C7: of two utility-world realms the same session announces for a frame,
\* exactly one is bound to the frame's utility World (the first, which the
\* direct id lookup still finds), and the second is reachable neither through
\* the World nor through getExecutionContextById: it is not tracked.
C7_SecondUntracked ==
  [][SecondOfSameSession =>
       LET o == frames[last'.f]
           first == objs[o].util
       IN  /\ objs'[o].util = first
           /\ objs'[o].util.id # nextCtx
           /\ Cardinality(HeldBy(objs', contexts', o, PUPPETEER_WORLD)) = 1
           /\ getExecutionContextById(contexts', first.id, first.session) # {}
           /\ getExecutionContextById(contexts', nextCtx, last'.s) = {}]_vars

\* two utility-world realms of the page session were announced for the main
\* frame: the registry knows the first and not the second
C7_Witness ==
  /\ last.kind = "contextCreated"
  /\ last.b = UTILITY_WORLD_NAME
  /\ last.s = PageSession
  /\ last.f \in FrameIds
  /\ mainFrame # NoFrame
  /\ frames[last.f] = mainFrame
  /\ objs[mainFrame].client = PageSession
  /\ objs[mainFrame].util = [session |-> PageSession, id |-> 1]
  /\ nextCtx = 3
  /\ getExecutionContextById(contexts, 1, PageSession) # {}
  /\ getExecutionContextById(contexts, 2, PageSession) = {}

\* C8: a frame-navigated event for the main frame A detaches every frame under
\* A (a child B attached before is detached and not resolvable) and keeps A as
\* the same main Frame under its id; when the handler resumes, A's URL is the
\* payload's and, the loader id being new, both of A's Worlds hold no context.
C8_NavigateDetachesChildren ==
  /\ [][(/\ last'.kind = "navigate"
         /\ last'.f \in MainIds
         /\ mainFrame # NoFrame
         /\ frames[last'.f] = mainFrame) =>
          /\ \A d \in Descendants(objs, frames, mainFrame) :
               /\ objs'[d].detached
               /\ frames'[objs[d].id] = NoFrame
          /\ Len(emitted') = Cardinality(Descendants(objs, frames, mainFrame))
          /\ mainFrame' = mainFrame
          /\ frames'[last'.f] = mainFrame
          /\ ~objs'[mainFrame].detached
          /\ Len(objs') = Len(objs)
          /\ micro' = <<[obj |-> mainFrame, url |-> last'.a,
                         loaderId |-> last'.b]>>]_vars
  /\ [][(last'.kind = "resume") =>
          LET c == Head(micro)
          IN  /\ frames' = frames
              /\ mainFrame' = mainFrame
              /\ objs'[c.obj].url = c.url
              /\ objs'[c.obj].detached = objs[c.obj].detached
              /\ c.loaderId # objs[c.obj].loaderId =>
                   /\ objs'[c.obj].loaderId = c.loaderId
                   /\ objs'[c.obj].main = NoCtx
                   /\ objs'[c.obj].util = NoCtx
              /\ emitted' = <<<<FrameNavigated, c.obj>>>>]_vars

\* the main frame, which had a child and a bound World, has navigated to a new
\* document: the child is detached, the main frame is the same object with the
\* new URL and empty Worlds
C8_Witness ==
  /\ last.kind = "resume"
  /\ last.b = "L2"
  /\ mainFrame = 1
  /\ objs[mainFrame].id = last.f
  /\ objs[mainFrame].url = "u2"
  /\ objs[mainFrame].main = NoCtx
  /\ objs[mainFrame].util = NoCtx
  /\ \E c \in contexts : c.obj = mainFrame
  /\ \E d \in 1..Len(objs) :
       /\ objs[d].parentId = objs[mainFrame].id
       /\ objs[d].detached
       /\ frames[objs[d].id] = NoFrame

\* the continuations of the waits ws, resumed with object o
Continuations(ws, o) ==
  [i \in 1..Len(ws) |-> [obj |-> o, url |-> ws[i].url, loaderId |-> ws[i].loaderId]]

\* C9: a frame-navigated event for a subframe that is not in the tree registers
\* a wait and does nothing else; the attach of frame X resolves exactly the
\* waits on X, with the Frame it constructed, and leaves the waits on other ids
\* pending in their order: waits resolve in the order of the attaches.
C9_WaitResolvesOnAttach ==
  /\ [][(/\ last'.kind = "navigate"
         /\ last'.f \in ChildIds
         /\ frames[last'.f] = NoFrame) =>
          /\ waitRequests' = Append(waitRequests,
                                    [frameId |-> last'.f, url |-> last'.a,
                                     loaderId |-> last'.b])
          /\ micro' = << >>
          /\ emitted' = << >>
          /\ objs' = objs /\ frames' = frames]_vars
  /\ [][(last'.kind = "attach" /\ frames[last'.f] = NoFrame) =>
          LET o == frames'[last'.f]
          IN  /\ o = Len(objs) + 1
              /\ micro' = Continuations(
                            SelectSeq(waitRequests,
                                      LAMBDA w : w.frameId = last'.f), o)
              /\ waitRequests' = SelectSeq(waitRequests,
                                           LAMBDA w : w.frameId # last'.f)]_vars

\* waits on two subframes were pending and the attach of one of them arrived:
\* its wait is resolved with the new Frame, the other wait is still pending
C9_Witness ==
  /\ last.kind = "attach"
  /\ Len(micro) = 1
  /\ micro[1].obj = frames[last.f]
  /\ Len(waitRequests) = 1
  /\ waitRequests[1].frameId \in ChildIds \ {last.f}

\* C10: a frame-navigated event without parent id whose frame id is not the id
\* of the current main Frame keeps the main Frame object and updates its id in
\* place: getMainFrame is unchanged, the new id resolves to that object, and no
\* Frame object is constructed.
C10_MainFrameIdUpdatedInPlace ==
  [][(/\ last'.kind = "navigate"
      /\ last'.f \in MainIds
      /\ mainFrame # NoFrame
      /\ objs[mainFrame].id # last'.f) =>
       /\ mainFrame' = mainFrame
       /\ frames'[last'.f] = mainFrame
       /\ Len(objs') = Len(objs)]_vars

\* the notifications of kind k in the sequence out that are about object o
About(out, k, o) == {i \in 1..Len(out) : out[i] = <<k, o>>}

\* C11: the handler of a disconnect of a page session detaches every
\* descendant of the main frame in the same step and keeps the main frame
\* (same object, same id, not detached) while it starts to wait for the swap;
\* while that wait is pending, the frame it holds stops being resolvable only
\* in the step of the grace deadline or in the handler of an explicit
\* frame-detached event.
C11_DisconnectDetachesChildrenOnly ==
  /\ [][(/\ last'.kind = "disconnect"
         /\ DisconnectListened(last'.s)
         /\ mainFrame # NoFrame) =>
          /\ \A d \in Descendants(objs, frames, mainFrame) :
               /\ objs'[d].detached
               /\ frames'[objs[d].id] = NoFrame
               /\ About(emitted', FrameDetached, d) # {}
          /\ Len(emitted') = Cardinality(Descendants(objs, frames, mainFrame))
          /\ mainFrame' = mainFrame
          /\ Resolvable(objs', frames', mainFrame)
          /\ objs'[mainFrame].id = objs[mainFrame].id
          /\ ~objs'[mainFrame].detached
          /\ swapWait'[last'.s] = [obj |-> mainFrame, state |-> "pending"]]_vars
  /\ [][\A s \in Sessions :
          (/\ swapWait[s].state = "pending"
           /\ Resolvable(objs, frames, swapWait[s].obj)
           /\ ~Resolvable(objs', frames', swapWait[s].obj))
          => last'.kind \in {"timeout", "detach"}]_vars

\* the page session disconnected while the main frame had a child: the child
\* is detached, the main frame is held for the swap
C11_Witness ==
  /\ last.kind = "disconnect"
  /\ last.s = PageSession
  /\ mainFrame # NoFrame
  /\ Resolvable(objs, frames, mainFrame)
  /\ swapWait[PageSession] = [obj |-> mainFrame, state |-> "pending"]
  /\ emitted # << >>
  /\ \E d \in 1..Len(objs) :
       /\ objs[d].parentId = objs[mainFrame].id
       /\ objs[d].detached
       /\ frames[objs[d].id] = NoFrame

\* C12: after swapFrameTree(newSession) neither World of the main frame holds
\* an execution context and the registry has no entry owned by (or keyed
\* under) the session that was the manager's client before the swap.
C12_SwapClearsContexts ==
  [][(last'.kind = "swap") =>
       /\ mainFrame' # NoFrame =>
            /\ objs'[mainFrame'].main = NoCtx
            /\ objs'[mainFrame'].util = NoCtx
       /\ \A c \in contexts' : c.client # client /\ c.session # client
       /\ \A c \in contexts : c.client # client => c \in contexts']_vars

\* a swap happened while a World of the main frame held a context of the old
\* session: the Worlds are empty and the registry is too
C12_Witness ==
  /\ last.kind = "swap"
  /\ mainFrame # NoFrame
  /\ objs[mainFrame].client = SwapSession
  /\ objs[mainFrame].main = NoCtx
  /\ objs[mainFrame].util = NoCtx
  /\ nextCtx > 1
  /\ contexts = {}

\* C13: swapFrameTree emits no notification at all, and neither it nor the
\* rest of the swap (the frame-tree response of the new session, the end of
\* swapFrameTree) emits a FrameAttached or a FrameDetached notification for
\* the main frame.
C13_SwapIsSilent ==
  [][(\/ last'.kind \in {"swap", "swapComplete"}
      \/ last'.kind = "frameTree" /\ last'.s = SwapSession) =>
       /\ last'.kind = "swap" => emitted' = << >>
       /\ mainFrame # NoFrame =>
            /\ mainFrame' = mainFrame
            /\ About(emitted', FrameAttached, mainFrame) = {}
            /\ About(emitted', FrameDetached, mainFrame) = {}]_vars

\* the main frame, whose child went with the disconnect of the old session, was
\* re-keyed from the old target's id to the new one by a swap that emitted
\* nothing
C13_Witness ==
  /\ last.kind = "swap"
  /\ emitted = << >>
  /\ mainFrame # NoFrame
  /\ objs[mainFrame].id = TargetId(SwapSession)
  /\ frames[TargetId(SwapSession)] = mainFrame
  /\ frames[TargetId(PageSession)] = NoFrame
  /\ \E d \in 1..Len(objs) :
       objs[d].parentId = TargetId(PageSession) /\ objs[d].detached

\* C14: the asserting lookup executionContextById fails with an internal error
\* exactly when the registry has no entry for (session, id) and the tolerant
\* lookup getExecutionContextById returns none exactly then; neither lookup
\* changes the registry, a World or anything else of a frame.
C14_LookupsAssertOrTolerate ==
  [][(last'.kind \in {"bindingCalled", "consoleAPICalled"}) =>
       LET absent == \A c \in contexts :
                       ~(c.session = last'.s /\ c.id = last'.a)
       IN  /\ last'.kind = "bindingCalled" =>
                (last'.b = "INTERNAL ERROR") = absent
           /\ last'.kind = "consoleAPICalled" => (last'.b = "none") = absent
           /\ last'.b \in {"INTERNAL ERROR", "none", "found"}
           /\ contexts' = contexts
           /\ objs' = objs
           /\ frames' = frames]_vars

\* a binding call named a context the registry does not know while it knows
\* another one: the asserting lookup failed and the registry is as it was
C14_Witness ==
  /\ last.kind = "bindingCalled"
  /\ last.b = "INTERNAL ERROR"
  /\ contexts # {}
  /\ getExecutionContextById(contexts, last.a, last.s) = {}

\* C15: a context-created event changes the main World of its frame only if
\* the realm is the frame's default realm, and the utility World only if the
\* realm has the reserved name and that World held no context; the realm of
\* the frame's own session that matches a rule is bound and registered under
\* (session, id); a realm that matches neither rule, or names no frame of the
\* tree, creates no registry entry and changes no World.
C15_BindingRules ==
  [][(last'.kind = "contextCreated") =>
       LET known == last'.f \in FrameIds /\ frames[last'.f] # NoFrame
           o == frames[last'.f]
           key == [session |-> last'.s, id |-> nextCtx]
           own == known /\ objs[o].client = last'.s
           asMain == own /\ last'.a
           asUtil == /\ own /\ ~last'.a
                     /\ last'.b = UTILITY_WORLD_NAME
                     /\ objs[o].util = NoCtx
       IN  /\ \A x \in 1..Len(objs) :
                /\ objs'[x].main # objs[x].main => (x = o /\ asMain)
                /\ objs'[x].util # objs[x].util => (x = o /\ asUtil)
                /\ [objs'[x] EXCEPT !.main = objs[x].main,
                                    !.util = objs[x].util] = objs[x]
           /\ asMain => objs'[o].main = key
           /\ asUtil => objs'[o].util = key
           /\ (asMain \/ asUtil) =>
                contexts' = contexts \cup
                  {[session |-> last'.s, id |-> nextCtx, client |-> last'.s,
                    obj |-> o,
                    world |-> IF asMain THEN MAIN_WORLD ELSE PUPPETEER_WORLD]}
           /\ ~(asMain \/ asUtil) => (contexts' = contexts /\ objs' = objs)]_vars

\* a realm with another name was announced for a frame whose Worlds are both
\* empty: nothing was bound and nothing registered
C15_Witness ==
  /\ last.kind = "contextCreated"
  /\ last.a = FALSE
  /\ last.b = "other"
  /\ last.f \in FrameIds
  /\ frames[last.f] # NoFrame
  /\ objs[frames[last.f]].client = last.s
  /\ objs[frames[last.f]].main = NoCtx
  /\ objs[frames[last.f]].util = NoCtx
  /\ contexts = {}

\* the context the World w of object o holds (NoCtx when it holds none)
Slot(os, o, w) == IF w = MAIN_WORLD THEN os[o].main ELSE os[o].util

\* C16: a context-destroyed event for (session, id) removes exactly the
\* registry entry of (session, id), and a World is cleared only if the context
\* it holds is the destroyed one: every other World keeps what it holds.
C16_DestroyClearsOnlyLiveContext ==
  [][(last'.kind = "contextDestroyed") =>
       LET found == getExecutionContextById(contexts, last'.a, last'.s)
       IN  /\ contexts' = contexts \ found
           /\ \A o \in 1..Len(objs) : \A w \in {MAIN_WORLD, PUPPETEER_WORLD} :
                Slot(objs', o, w) =
                  IF \E c \in found : Key(c) = Slot(objs, o, w)
                  THEN NoCtx ELSE Slot(objs, o, w)]_vars

\* C17: a context-cleared event of session S removes the registry entries
\* owned by S and no other, clears the Worlds those entries are bound to, and
\* leaves every World that holds the context of an entry of another session
\* as it is.
C17_ClearedLeavesOtherSessions ==
  [][(last'.kind = "contextsCleared") =>
       LET gone == {c \in contexts : c.client = last'.s}
       IN  /\ contexts' = contexts \ gone
           /\ \A c \in gone : Slot(objs', c.obj, c.world) # Key(c)
           /\ \A c \in contexts \ gone :
                Slot(objs', c.obj, c.world) = Slot(objs, c.obj, c.world)]_vars

\* C18: a same-document navigation event for a frame of the tree changes the
\* URL of that frame and nothing else (loader id, lifecycle flags, Worlds,
\* children, tree and registry stay), and emits FrameNavigatedWithinDocument
\* and then FrameNavigated for it.
C18_SameDocumentNavigation ==
  [][(last'.kind = "withinDocument" /\ frames[last'.f] # NoFrame) =>
       LET o == frames[last'.f]
       IN  /\ objs' = [objs EXCEPT ![o].url = last'.a]
           /\ frames' = frames
           /\ mainFrame' = mainFrame
           /\ contexts' = contexts
           /\ emitted' = <<<<FrameNavigatedWithinDocument, o>>,
                           <<FrameNavigated, o>>>>]_vars

\* a frame with a child, a loaded document and a bound World navigated within
\* its document: only its URL is new
C18_Witness ==
  /\ last.kind = "withinDocument"
  /\ last.f \in FrameIds
  /\ frames[last.f] # NoFrame
  /\ objs[frames[last.f]].url = "u2"
  /\ objs[frames[last.f]].loaderId = "L1"
  /\ hasContext(objs[frames[last.f]], MAIN_WORLD)
  /\ Descendants(objs, frames, frames[last.f]) # {}
  /\ Len(emitted) = 2

\* C19: a frame-detached event with reason "swap" leaves the frame and its
\* descendants as they are and emits FrameSwapped and nothing else; only with
\* reason "remove" is the frame taken out of the tree.
C19_SwapReasonKeepsFrame ==
  [][(last'.kind = "detach" /\ frames[last'.f] # NoFrame) =>
       LET o == frames[last'.f]
       IN  /\ last'.a = "swap" =>
                /\ objs' = objs
                /\ frames' = frames
                /\ mainFrame' = mainFrame
                /\ emitted' = <<<<FrameSwapped, o>>>>
           /\ last'.a = "remove" =>
                /\ frames'[last'.f] = NoFrame
                /\ objs'[o].detached
                /\ About(emitted', FrameSwapped, o) = {}]_vars

\* a frame with a child got a frame-detached event with reason "swap": both
\* are still in the tree
C19_Witness ==
  /\ last.kind = "detach"
  /\ last.a = "swap"
  /\ last.f \in FrameIds
  /\ frames[last.f] # NoFrame
  /\ emitted = <<<<FrameSwapped, frames[last.f]>>>>
  /\ \E d \in Descendants(objs, frames, frames[last.f]) : ~objs[d].detached

\* the frame ids on the parent chain of object o (its parent may not be in the
\* tree yet)
RECURSIVE AncestorIds(_, _, _, _)
AncestorIds(os, fs, o, n) ==
  IF n = 0 \/ os[o].parentId \notin FrameIds THEN {}
  ELSE LET p == fs[os[o].parentId]
       IN  {os[o].parentId} \cup
             (IF p = NoFrame THEN {} ELSE AncestorIds(os, fs, p, n - 1))

\* the snapshot a frame-tree step replayed (each session's snapshots differ in
\* length)
SnapshotOf(e) == CHOOSE t \in Snapshots(e.s) : Len(t) = e.a

\* the #onFrameNavigated calls for frame id that are suspended in waitForFrame
\* or about to resume
Suspended(os, ws, mi, id) ==
  Cardinality({i \in 1..Len(ws) : ws[i].frameId = id})
    + Cardinality({i \in 1..Len(mi) : os[mi[i].obj].id = id})

\* C20: the replay of a snapshot skips every frame id for which a
\* frame-navigated event was received (it starts no navigation for it, and
\* forgets the mark), starts one navigation with the snapshot's payload for
\* every other id, and detaches only frames below an id it navigates.
C20_SnapshotSkipsNavigated ==
  [][(last'.kind = "frameTree") =>
       LET t == SnapshotOf(last')
           marked(p) == p.id \in navReceived
       IN  /\ \A i \in 1..Len(t) :
                LET before == Suspended(objs, waitRequests, micro, t[i].id)
                    after == Suspended(objs', waitRequests', micro', t[i].id)
                IN  IF marked(t[i])
                    THEN after = before
                    ELSE /\ after = before + 1
                         /\ \/ \E j \in 1..Len(micro') :
                                 /\ objs'[micro'[j].obj].id = t[i].id
                                 /\ micro'[j].url = t[i].url
                                 /\ micro'[j].loaderId = t[i].loaderId
                            \/ \E j \in 1..Len(waitRequests') :
                                 /\ waitRequests'[j].frameId = t[i].id
                                 /\ waitRequests'[j].url = t[i].url
                                 /\ waitRequests'[j].loaderId = t[i].loaderId
           /\ navReceived' = navReceived \ {t[i].id : i \in 1..Len(t)}
           /\ \A k \in 1..Len(emitted') :
                emitted'[k][1] = FrameDetached =>
                  \E i \in 1..Len(t) :
                    /\ ~marked(t[i])
                    /\ t[i].id \in
                         AncestorIds(objs, frames, emitted'[k][2], Len(objs))]_vars

\* the snapshot of a session arrived after a frame-navigated event for its
\* root and named a child too: the root was skipped with its document of the
\* event, the child was navigated from the snapshot
C20_Witness ==
  /\ last.kind = "frameTree"
  /\ last.s = PageSession
  /\ last.a = 2
  /\ navReceived = {}
  /\ mainFrame # NoFrame
  /\ objs[mainFrame].id = TargetId(PageSession)
  /\ objs[mainFrame].url = "u2"
  /\ Len(micro) = 1
  /\ objs[micro[1].obj].id = "B"

\* the objects in the tree fs that have no parent id
Roots(os, fs) ==
  {o \in 1..Len(os) : Resolvable(os, fs, o) /\ os[o].parentId = NoId}

\* C21: in every reachable state the tree holds at most one Frame without a
\* parent id, and a parentless Frame in the tree is the one getMainFrame
\* returns.
C21_SingleRoot ==
  /\ Cardinality(Roots(objs, frames)) <= 1
  /\ \A o \in Roots(objs, frames) : o = mainFrame

\* C24: when a frame-navigated event removes the children of the navigated
\* frame, no execution context bound to a World of a removed frame is returned
\* by getExecutionContextById afterwards.
C24_RemovedFramesContextsGone ==
  [][(last'.kind = "navigate" /\ frames[last'.f] # NoFrame) =>
       \A d \in Descendants(objs, frames, frames[last'.f]) :
         \A c \in contexts :
           (c.obj = d /\ Slot(objs, d, c.world) = Key(c)) =>
             getExecutionContextById(contexts', c.id, c.session) = {}]_vars

\* C22: when swapFrameTree has started for the frame a disconnect handler
\* holds, the expiry of the grace deadline while the initialization of the new
\* session is still in progress does not remove the main frame.
C22_SwapInProgressKeepsFrame ==
  [][(/\ last'.kind = "timeout"
      /\ swapping.state = "initializing"
      /\ swapping.obj # NoFrame
      /\ swapping.obj = swapWait[last'.s].obj) =>
       /\ mainFrame' = mainFrame
       /\ Resolvable(objs', frames', swapping.obj)
       /\ ~objs'[swapping.obj].detached]_vars

\* C23: when the disconnect of the old page session is delivered only after
\* swapFrameTree has completed, neither its handler nor the deadline it starts
\* removes the swapped main frame or a child attached under the new session.
C23_LateDisconnectKeepsTree ==
  [][(/\ last'.kind \in {"disconnect", "timeout"}
      /\ last'.s = PageSession
      /\ swapping.state = "done"
      /\ swapping.obj # NoFrame
      /\ mainFrame = swapping.obj) =>
       /\ mainFrame' = mainFrame
       /\ frames' = frames
       /\ \A o \in 1..Len(objs) : objs'[o].detached = objs[o].detached]_vars

\* nothing is pending: no continuation, no wait for a frame, no frame-tree
\* response, no swap in progress and no open grace window; only a new event of
\* the browser changes the tree from here
Quiescent ==
  /\ micro = << >>
  /\ waitRequests = << >>
  /\ initPending = {}
  /\ swapping.state # "initializing"
  /\ \A s \in Sessions : swapWait[s].state # "pending"

\* C25: a frame of the tree whose parent id resolves to nothing exists only
\* while something is pending; once every event delivered so far has been
\* handled to its end, the parent id of every non-root Frame in the tree
\* resolves to a Frame in the tree.
C25_ParentResolvesAtRest ==
  Quiescent =>
    \A o \in 1..Len(objs) :
      (Resolvable(objs, frames, o) /\ objs[o].parentId # NoId) =>
        frames[objs[o].parentId] # NoFrame

\* the sequence q as a set
Range(q) == {q[i] : i \in 1..Len(q)}

NoTimerOrContinuation ==
  /\ micro = << >>
  /\ \A s \in Sessions : swapWait[s].state # "pending"
  /\ ~(swapping.state = "initializing" /\ SwapSession \notin initPending)

\* C27: the wait of a frame-navigated handler carries a deadline: a handler is
\* suspended in waitForFrame only while a timer of the program is running or a
\* continuation is about to run, so that a wait for a frame that is never
\* attached ends and releases its registration.
C27_WaitCarriesDeadline ==
  NoTimerOrContinuation => waitRequests = << >>

\* C28: detached is terminal: a Frame object removed by the recursive removal
\* stays detached, is never an entry of the tree or the main frame again, and
\* no attach, navigated or lifecycle notification is emitted for it.
C28_DetachedIsTerminal ==
  [][\A o \in 1..Len(objs) :
       objs[o].detached =>
         /\ objs'[o].detached
         /\ ~Resolvable(objs', frames', o)
         /\ mainFrame' # o
         /\ \A k \in {FrameAttached, FrameNavigated, LifecycleEvent,
                      FrameNavigatedWithinDocument} :
              About(emitted', k, o) = {}]_vars

\* a frame id whose Frame was detached was attached again: the tree holds a
\* new Frame object under the id, the notification is about the new object and
\* the old object is still detached
C28_Witness ==
  /\ last.kind = "attach"
  /\ frames[last.f] # NoFrame
  /\ emitted = <<<<FrameAttached, frames[last.f]>>>>
  /\ \E o \in 1..Len(objs) :
       /\ objs[o].detached
       /\ objs[o].id = last.f
       /\ frames[last.f] # o

\* the tree at the moment the replay of snapshot t on session s reaches its
\* i-th frame: the frames before it have been handled
ReplayedUpTo(t, s, i) == handleFrameTree(Tree, client, s, SubSeq(t, 1, i - 1))

\* C29 as stated: every frame of a snapshot that has a parent id finds its
\* parent resolvable in the tree at the moment it is attached, and after the
\* replay every frame id the snapshot names is resolvable.
C29_ParentResolvableAtAttach ==
  [][(last'.kind = "frameTree") =>
       LET t == SnapshotOf(last')
       IN  /\ \A i \in 1..Len(t) :
                t[i].parentId # NoId =>
                  getById(ReplayedUpTo(t, last'.s, i), t[i].parentId) # NoFrame
           /\ \A i \in 1..Len(t) : frames'[t[i].id] # NoFrame]_vars

\* the replay creates or keeps a Frame for payload p: it attaches every frame
\* that has a parent id and navigates a parentless root unless a
\* frame-navigated event was received for it
Replayed(p) == p.parentId # NoId \/ p.id \notin navReceived

\* C29: the replay handles a frame of the snapshot before the frames below it:
\* a frame whose parent is a frame of the snapshot that the replay attaches or
\* navigates finds that parent resolvable in the tree at the moment it is
\* attached, and after the replay every such frame id is resolvable.  The
\* parent of the snapshot's own root is not part of the snapshot and may be
\* absent, and a parentless root marked as navigated is skipped.
C29_SnapshotParentsFirst ==
  [][(last'.kind = "frameTree") =>
       LET t == SnapshotOf(last')
       IN  /\ \A i \in 1..Len(t) : \A j \in 1..(i - 1) :
                (t[j].id = t[i].parentId /\ Replayed(t[j])) =>
                  getById(ReplayedUpTo(t, last'.s, i), t[i].parentId) # NoFrame
           /\ \A i \in 1..Len(t) :
                Replayed(t[i]) => frames'[t[i].id] # NoFrame]_vars

\* the snapshot of an out-of-process iframe was replayed while its parent was
\* not in the tree: the iframe and its child are in the tree, the child under
\* the iframe
C29_Witness ==
  /\ last.kind = "frameTree"
  /\ last.s = OopifSession
  /\ last.a = 2
  /\ frames["A"] = NoFrame
  /\ frames["B"] # NoFrame
  /\ frames["C"] # NoFrame
  /\ objs[frames["B"]].parentId = "A"
  /\ objs[frames["C"]].parentId = "B"

\* C30: when a command of a session's initialization is rejected, the caller
\* sees a normal return exactly if the error is a target-closed error and the
\* error itself otherwise (swapFrameTree then ends without its swap signal);
\* in both cases the frame tree, the pending waits and the registry are as
\* they were before the failure.
C30_InitializeFailure ==
  [][(last'.kind = "initializeFailed") =>
       /\ (last'.b = "returned") = (last'.a = TargetClosedError)
       /\ (last'.b = "threw") = (last'.a # TargetClosedError)
       /\ last'.s \notin initPending'
       /\ objs' = objs
       /\ frames' = frames
       /\ mainFrame' = mainFrame
       /\ waitRequests' = waitRequests
       /\ contexts' = contexts
       /\ emitted' = << >>
       /\ (last'.s = SwapSession /\ swapping.state = "initializing") =>
            swapping'.state = IF last'.a = TargetClosedError
                              THEN "initializing" ELSE "failed"]_vars

\* the replacement session closed while swapFrameTree was initializing it: the
\* initialization returned normally, the swap goes on and the re-keyed main
\* frame is still in the tree
C30_Witness ==
  /\ last.kind = "initializeFailed"
  /\ last.s = SwapSession
  /\ last.a = TargetClosedError
  /\ last.b = "returned"
  /\ session[SwapSession] = "disconnected"
  /\ swapping.state = "initializing"
  /\ mainFrame # NoFrame
  /\ frames[TargetId(SwapSession)] = mainFrame
  /\ ~objs[mainFrame].detached

\* C31: a lifecycle, started-loading, stopped-loading, same-document
\* navigation or frame-detached event that names a frame id which is not in
\* the tree is ignored: it emits no notification and changes neither the
\* frames, the tree, the pending waits nor the registry.
C31_UnknownFrameIgnored ==
  [][(/\ last'.kind \in {"lifecycle", "startedLoading", "stoppedLoading",
                         "withinDocument", "detach"}
      /\ frames[last'.f] = NoFrame) =>
       /\ emitted' = << >>
       /\ objs' = objs
       /\ frames' = frames
       /\ mainFrame' = mainFrame
       /\ waitRequests' = waitRequests
       /\ micro' = micro
       /\ contexts' = contexts]_vars

\* a stopped-loading event named a frame id that is not in the tree while the
\* tree held a main frame that has stopped loading and its child: nothing was
\* emitted
C31_Witness ==
  /\ last.kind = "stoppedLoading"
  /\ frames[last.f] = NoFrame
  /\ emitted = << >>
  /\ mainFrame # NoFrame
  /\ "load" \in objs[mainFrame].lifecycle
  /\ Descendants(objs, frames, mainFrame) # {}

\* C32: every FrameNavigated notification names a Frame that is in the tree
\* and not detached when it is emitted, and a frame-navigated handler that
\* resumes (at once or after it was suspended in waitForFrame) applies its
\* payload to a Frame that is in the tree and not detached.
C32_NavigatedFrameIsResolvable ==
  [][/\ \A i \in 1..Len(emitted') :
          emitted'[i][1] = FrameNavigated =>
            /\ Resolvable(objs', frames', emitted'[i][2])
            /\ ~objs'[emitted'[i][2]].detached
     /\ last'.kind = "resume" =>
          /\ Resolvable(objs, frames, Head(micro).obj)
          /\ ~objs[Head(micro).obj].detached
          /\ \A o \in 1..Len(objs) : o # Head(micro).obj => objs'[o] = objs[o]]_vars

\* two frame-navigated events for a subframe that was not in the tree were
\* suspended, the frame was attached, and the first of the two handlers has
\* resumed on the attached Frame; the second is about to
C32_Witness ==
  /\ last.kind = "resume"
  /\ last.f \in ChildIds
  /\ Len(objs) = 1
  /\ emitted = <<<<FrameNavigated, 1>>>>
  /\ Resolvable(objs, frames, 1)
  /\ objs[1].url = last.a
  /\ Len(micro) = 1
  /\ micro[1].obj = 1

\* C33: over any sequence of events each Frame object is notified as detached
\* at most once: no step notifies FrameDetached for an object that was
\* detached before the step, and no step notifies it twice for one object.
C33_AtMostOneFrameDetached ==
  [][\A o \in 1..Len(objs') :
       Cardinality(About(emitted', FrameDetached, o))
         <= (IF o <= Len(objs) /\ objs[o].detached THEN 0 ELSE 1)]_vars

\* C34: in every reachable state the registry holds at most one entry bound to
\* any World, and an entry bound to a World is the context that World holds:
\* no entry stays in the registry once its World was given a newer context.
C34_OneLiveEntryPerWorld ==
  \A o \in 1..Len(objs) : \A w \in {MAIN_WORLD, PUPPETEER_WORLD} :
    LET bound == {c \in contexts : c.obj = o /\ c.world = w}
    IN  /\ Cardinality(bound) <= 1
        /\ \A c \in bound : Slot(objs, o, w) = Key(c)

\* C35: a context-created event delivered by a session other than the one the
\* named frame is bound to is ignored: the registry gets no entry, and both
\* Worlds of the frame, like every other frame, stay as they were.
C35_ForeignSessionIgnored ==
  [][(/\ last'.kind = "contextCreated"
      /\ last'.f \in FrameIds
      /\ frames[last'.f] # NoFrame
      /\ objs[frames[last'.f]].client # last'.s) =>
       /\ contexts' = contexts
       /\ objs' = objs
       /\ getExecutionContextById(contexts', nextCtx, last'.s) = {}]_vars

\* the subframe B moved to its iframe target's session, and the page session
\* then announced a default realm for B: B's Worlds are empty, the registry too
C35_Witness ==
  /\ last.kind = "contextCreated"
  /\ last.s = PageSession
  /\ last.f = "B"
  /\ last.a = TRUE
  /\ frames["B"] # NoFrame
  /\ objs[frames["B"]].client = OopifSession
  /\ objs[frames["B"]].main = NoCtx
  /\ objs[frames["B"]].util = NoCtx
  /\ contexts = {}
  /\ nextCtx = 2

C37_ForwardedExactlyOnce ==
  [][\A k \in ForwardedKinds : \A o \in 1..Len(objs') :
       Cardinality(About(forwarded', k, o))
         = Cardinality(About(emitted', k, o))]_vars

\* C38: the page becomes closed only in the step in which its current target
\* closes, with the Close notification, and Close is emitted at most once.
C38_ClosedWithCurrentTarget ==
  [][/\ page'.closeEmitted <= 1
     /\ (page'.closed /\ ~page.closed) =>
          /\ last'.kind = "targetClosed"
          /\ last'.s = client
          /\ page'.closeEmitted = page.closeEmitted + 1]_vars

\* the dispose and async-dispose calls of the sequence q that release: those
\* with no move() since the dispose call before them
RECURSIVE Releasing(_, _)
Releasing(q, marked) ==
  IF q = << >> THEN 0
  ELSE IF Head(q) = "move" THEN Releasing(Tail(q), TRUE)
  ELSE (IF marked THEN 0 ELSE 1) + Releasing(Tail(q), FALSE)

\* C39: on a handle of a moveable class a move() suppresses exactly the next
\* dispose or async dispose call, which releases nothing; the dispose call
\* after that releases the handle, and so does the first dispose call on a
\* handle that was never moved.
C39_MoveSuppressesNextDispose ==
  /\ [](\A h \in Handles : released[h] = Releasing(handleCalls[h], FALSE))
  /\ [][\A h \in Handles :
          (last'.f = h /\ last'.kind \in {"dispose", "asyncDispose"}) =>
            released'[h] =
              IF \E i \in 1..Len(handleCalls[h]) :
                   /\ handleCalls[h][i] = "move"
                   /\ \A j \in (i + 1)..Len(handleCalls[h]) :
                        handleCalls[h][j] = "move"
              THEN released[h]
              ELSE released[h] + 1]_vars

\* h1 was moved, then async-disposed (nothing released), then disposed: released
C39_Witness ==
  /\ handleCalls["h1"] = <<"move", "asyncDispose", "dispose">>
  /\ released["h1"] = 1
  /\ instances = {}

\* the tuples passed to the decorated method before, by calls that did not throw
PassedBefore ==
  {memoCalls[i] : i \in {j \in 1..Len(memoCalls) :
                           Len(memoCalls[j]) = Len(memoCalls[1])}}

\* C40: the decorated method invokes its target exactly when the argument
\* tuple was not passed to it before, and throws without invoking the target
\* when the number of arguments differs from that of its first call.
C40_InvokedOncePerTuple ==
  [][(last'.kind = "call") =>
       LET args == last'.a
           wrong == memoCalls # << >> /\ Len(args) # Len(memoCalls[1])
       IN  /\ wrong => (last'.b = "threw" /\ invoked' = invoked)
           /\ ~wrong =>
                /\ (last'.b = "invoked") = (args \notin PassedBefore)
                /\ last'.b = "invoked" => invoked' = Append(invoked, args)
                /\ last'.b # "invoked" => invoked' = invoked]_vars

====
